---- MODULE Spec2Model ----
(***************************************************************************)
(* A state-machine model of sosistab: the session receive machine (replay  *)
(* filter, out-of-band FEC decoder), the per-stream inflight tracker and   *)
(* connection variables, the listener's session table and the handshake    *)
(* recent-filter.  Every subsystem has its own variables and its own       *)
(* specification; a specification leaves the other subsystems' variables   *)
(* untouched.                                                              *)
(***************************************************************************)
EXTENDS Integers, Sequences, FiniteSets, TLC

(***************************************************************************)
(* Bounds of the model.                                                    *)
(***************************************************************************)
\* data frames 0..MaxFrame are sent inside the replay window
MaxFrame == 3
\* number of data frames sent far ahead (beyond the replay window)
FarFrames == 1
\* K: data frames per parity run
DataLen == 2
\* M: parity frames per parity run
ParityLen == 2
\* the table's clock stops after MaxTicks steps
MaxTicks == 3
\* the recent-filter's clock stops after MaxRecentTicks steps
MaxRecentTicks == 7
\* Seqnos a stream assigns: 0..(MaxSeqno - 1).
MaxSeqno == 2
\* The retransmission timeout rto() is longer than the delayed-ACK delay: it
\* takes the values (AckDelay + 1)..MaxRto clock ticks.
MaxRto == 3
\* A segment is retransmitted at most MaxRetrans times.
MaxRetrans == 1
\* The client's uploader replaces a worker at most MaxRespawns times.
MaxRespawns == 2
\* cfg.reset_interval, in clock ticks.
ResetTicks == 1
\* The stream clock runs from 0 to MaxStreamTicks.
MaxStreamTicks == 3
WindowAhead == 2
MaxSid == 1
MaxCallers == 2
MaxSessions == 2
MaxMuxInputs == 3
MaxMuxTicks == 2
MuxTickSecs == 15
MaxConnInputs == 2
MaxConnTicks == 6
\* open_conn calls of each of two connected peers
MaxPairOpens == 2
\* send_to calls on one TcpClientBackhaul, the tasks making them, and the
\* steps of its clock
MaxTcpSends == 3
MaxTcpCallers == 2
MaxTcpTicks == 2
TcpTickSecs == 300
\* uploads given to one client worker, and the steps of its clock
MaxUploads == 3
MaxWkTicks == 4
WkTickMs == 500
\* packets given to the dejitter buffer
MaxInjects == 3
\* the clock of the dejitter buffer advances by DjTickMs
DjTickMs == 10
\* seqnos are kept in SeqnoBits bits, the u64 of the source scaled down
SeqnoBits == 2
\* mutable buffers alive at once on one thread
MaxLiveBufs == 3
\* buffers in the free-list of a thread that has been running for a while
PoolWarm == 999
\* Fragments the writer has accepted beyond a full window of segments.
ExtraWrites == 2
\* Data frames on the wire beyond those the receiver has already taken.
ExtraData == 3

(***************************************************************************)
(* Program constants.                                                      *)
(***************************************************************************)
\* width of the replay window
ReplayWindow == 10000
\* parity index marking a run as done
DoneIdx == 255
\* a shard is recently used when updated less than RecentMs ago
RecentMs == 10000
\* seconds a handshake ciphertext is remembered
RecentTtl == 600
\* mux/relconn: maximum segment size, ACK batch, delayed-ACK delay (one
\* clock tick), the widest seqno span that may be in flight.
MSS == 1100
ACK_BATCH == 32
AckDelay == 1
MaxSpan == 10000
\* mux/congestion/cubic.rs: the initial window and the floor of the window.
CwndInit == 16
CwndMin == 4
U16Count == 65536
MaxStreams == 65535
UrelSendCap == 256
GlobCap == 1000
ConnAcceptCap == 100
WireReadCap == 100
SynWaitMs == 500
MaxSynTries == 5
MaxWaitSecs == 60
\* tcp/mod.rs: CONN_LIFETIME, in seconds
CONN_LIFETIME == 600
\* client/worker.rs: the silence after which the worker sends ClientResume
ResumeGapMs == 1000
\* session/dejitter.rs: the delay after which the oldest arrival is released
DejitterMs == 20
\* buffer.rs: the free-list takes a buffer while it holds fewer than
\* PoolLimit; a fresh buffer has FreshCapacity bytes
PoolLimit == 10000
FreshCapacity == 2048
\* the capacity of a buffer after a large payload was written into it
GrownCapacity == 8192
\* mux/multiplex_actor.rs: the delay of the reaper
ReapSecs == 30

(***************************************************************************)
(* Generic helpers.                                                        *)
(***************************************************************************)
None == [some |-> FALSE]
Some(v) == [some |-> TRUE, val |-> v]

\* Err(AeadError), as a result that carries no value
AeadError == [some |-> FALSE, err |-> "AeadError"]

Max(a, b) == IF a >= b THEN a ELSE b
Min(a, b) == IF a <= b THEN a ELSE b

SetMax(S) == CHOOSE x \in S : \A y \in S : y <= x
SetMin(S) == CHOOSE x \in S : \A y \in S : x <= y

\* the elements of a finite set of integers in ascending order
SortedSeq(S) ==
    [i \in 1..Cardinality(S) |-> CHOOSE x \in S : Cardinality({ y \in S : y < x }) = i - 1]

Zeros(n) == [i \in 1..n |-> 0]

VARIABLES
    \* ---- session receive machine (session/machine.rs)
    replay_filter,   \* ReplayFilter {top_seqno, bottom_seqno, seen_seqno}
    data_frames,     \* OobDecoder.data_frames: frame_no -> body
    parity_space,    \* OobDecoder.parity_space: ParitySpaceKey -> (u8 -> body)
    rloss,           \* RecvLossCalc {last_seen_seqno, good_seqnos, gap_seqnos}
    last_in,         \* history: the frame given to the last process call
    last_res,        \* history: what the last process call returned
    emit,            \* history: frame_no -> how it was emitted
    high_before,     \* history: highest frame_no emitted before the last call
    delivered,       \* history: the frames given to process so far
    rf_calls,        \* history: the last two ReplayFilter::add calls
    rf_accepted,     \* history: seqno -> number of add calls that returned true
    \* ---- listener session table (listener/table.rs)
    token_to_sess,   \* token -> ShardedAddrs.map: shard id -> (addr, last update)
    addr_to_token,   \* addr -> token
    now_ms,          \* the clock read by Instant::now(), in milliseconds
    tbl_last,        \* history: the last table operation and what it returned
    \* ---- handshake recent-filter (recfilter.rs)
    recent_filter,   \* RecentFilter {seen: hash -> Instant, expiry: queue}
    now_s,           \* the clock read by Instant::now(), in seconds
    last_accept,     \* history: value -> when check last accepted it
    last_reject,     \* history: value -> when check last rejected it
    last_check,      \* history: the last check call and what it returned
    \* ---- per-stream connection variables (mux/relconn)
    inflight,        \* ConnVars.inflight: Inflight {segments, rtos, lost_count}
    next_free_seqno, \* ConnVars.next_free_seqno
    now_tk,          \* the clock read by Instant::now(), in ticks
    inf_last,        \* history: the last Inflight operation
    \* ---- a stream: the relconn actors of its two endpoints (mux/relconn)
    conn_state,      \* endpoint -> RelConnState, or "Panicked"
    conn_vars,       \* endpoint -> ConnVars of its SteadyState
    recv_write,      \* endpoint -> bytes in the writer's pipe, not yet fragmented
    writer_closed,   \* endpoint -> the application closed the writer
    accepted,        \* history: endpoint -> all bytes its writer accepted
    send_read,       \* history: endpoint -> all bytes handed to its reader
    wire,            \* endpoint -> messages transmitted towards it
    stream_now,      \* the clock read by Instant::now(), in ticks
    last_evt,        \* history: the last event an actor processed
    \* ---- the client's uploader task (client/inner.rs)
    workers,         \* shard index -> ClientWorker {shard_id, received_count, id}
    fired_workers,   \* the ids of the fired workers still kept alive
    reset_elapsed,   \* last_reset.elapsed(), in ticks
    just_respawned,  \* the flag of the uploader loop
    started,         \* history: number of ClientWorker::start calls so far
    \* ---- the multiplex actor and its handle (mux/mod.rs, mux/multiplex_actor.rs)
    session,         \* the actor's current session
    recv_session,    \* channel send_session -> recv_session
    next_sess,       \* the next session replace_session will be given
    urel_send,       \* channel urel_send -> urel_send_recv
    urel_recv,       \* channel urel_recv_send -> urel_recv
    urel_got,        \* history: the bodies try_recv_urel returned
    urel_arrived,    \* history: the Urel bodies the actor received
    conn_open,       \* channel conn_open -> conn_open_recv
    open_tasks,      \* the tasks spawned for ConnOpen events, not yet run
    open_calls,      \* caller -> where its open_conn call stands
    open_no_id,      \* history: the callers whose task found no stream id
    sid_to_stream,   \* ConnTable: stream ids 0..MaxSid -> RelConnBack
    other_streams,   \* ConnTable: number of entries with other ids
    glob,            \* channel glob_send -> glob_recv
    dead_recv,       \* channel dead_send -> dead_recv
    reapers,         \* the timer tasks spawned by reap_dead: {id, at}
    mux_now,         \* the clock of the multiplex, in seconds
    conn_accept,     \* channel conn_accept_send -> conn_accept
    last_sent,       \* the last send_bytes: the session, the bytes, its ordinal
    swapped,         \* history: the last session swapped in, and the streams open then
    mux_inputs,      \* history: number of inputs so far
    \* ---- one relconn actor from its first state to its end (mux/relconn/mod.rs)
    rc_state,        \* RelConnState {name, tries, death}; "Exited" once the actor returned
    rc_listening,    \* in Reset: the receive branch of the race can still win
    rc_wait_start,   \* the time the current SynSent wait began
    rc_wire,         \* channel send_wire_read -> recv_wire_read
    rc_now,          \* the clock, in ms
    rc_ticks,        \* history: number of clock steps so far
    rc_sent,         \* history: the messages given to transmit
    rc_reader_closed,\* send_read has been closed
    rc_result,       \* the SynSent actor sent its signal on result
    rc_open,         \* where the open_conn call for this stream stands
    rc_reset_at,     \* history: the time the actor first entered Reset
    rc_additional,   \* additional_info
    rc_last_recv,    \* history: the last message the actor took from rc_wire
    rc_inputs,       \* history: number of messages handed to the actor
    \* ---- two multiplexes joined by a session (mux/multiplex_actor.rs)
    pr_tab,          \* per peer: ConnTable.sid_to_stream, id -> {state, origin}
    pr_wire,         \* per peer: the messages on their way to it
    pr_accept,       \* per peer: conn_accept, the streams waiting for accept_conn
    pr_accepted,     \* history, per peer: the stream ids accept_conn returned
    pr_returned,     \* history, per peer: the stream ids open_conn returned
    pr_opens,        \* history, per peer: the number of open_conn calls
    \* ---- the buffer pool of one thread (buffer.rs)
    BUFF_POOL,       \* the thread's free-list: the capacities of the vectors in it
    buf_live,        \* the capacities of the BuffMut values alive on the thread
    buf_last,        \* history: the last operation and the capacity it handled
    \* ---- the dejitter buffer of a session (session/dejitter.rs)
    dj_injector,     \* the channel behind injector: (packet, seqno) pairs not yet taken
    dj_closed,       \* every sender of the channel has been dropped
    dj_packets,      \* packets: the Slab, {entries, free}
    dj_arrivals,     \* arrivals, each Instant kept as the time passed since, capped
    dj_order,        \* order: the heap, as the set of its (seqno, idx) entries
    dj_last_popped,  \* last_popped
    dj_injected,     \* history: the seqno each packet was sent with
    dj_returned,     \* history: the pairs recv has returned
    dj_panic,        \* the receiver has panicked, and where
    dj_failed,       \* history: recv has returned Err
    \* ---- one run of client_backhaul_once (client/worker.rs)
    wk_updated,      \* updated
    wk_last_incoming_time,  \* last_incoming_time
    wk_last_outgoing_time,  \* last_outgoing_time
    wk_recv_upload,  \* the channel behind recv_upload
    wk_received,     \* received_count
    wk_now,          \* Instant::now(), in ms
    wk_socket,       \* history: the packets given to socket.send_to, with their times
    wk_uploads,      \* history: the uploads given to send_upload, in order
    \* ---- the connection pool of a TcpClientBackhaul (tcp/client.rs)
    conn_pool,       \* conn_pool: dest -> queue of (connection, time of creation)
    tcp_calls,       \* per task: where its send_to call stands, and what it holds
    tcp_now,         \* SystemTime::now(), in seconds
    tcp_opened,      \* history: the number of connections opened
    tcp_sends        \* history: the number of send_to calls

recvVars == << replay_filter, data_frames, parity_space, rloss, last_in, last_res,
               emit, high_before, delivered >>
replayVars == << rf_calls, rf_accepted >>

tableVars == << token_to_sess, addr_to_token, now_ms, tbl_last >>

recentVars == << recent_filter, now_s, last_accept, last_reject, last_check >>

inflightVars == << inflight, next_free_seqno, now_tk, inf_last >>

streamVars == << conn_state, conn_vars, recv_write, writer_closed, accepted,
                 send_read, wire, stream_now, last_evt >>

clientVars == << workers, fired_workers, reset_elapsed, just_respawned, started >>

muxVars == << session, recv_session, next_sess, urel_send, urel_recv, urel_got,
              urel_arrived, conn_open, open_tasks, open_calls, open_no_id, sid_to_stream,
              other_streams, glob, dead_recv, reapers, mux_now, conn_accept, last_sent, swapped,
              mux_inputs >>

connVars == << rc_state, rc_listening, rc_wait_start, rc_wire, rc_now, rc_ticks, rc_sent,
               rc_reader_closed, rc_result, rc_open, rc_reset_at, rc_additional,
               rc_last_recv, rc_inputs >>

pairVars == << pr_tab, pr_wire, pr_accept, pr_accepted, pr_returned, pr_opens >>

\* the subsystems modelled first, and those modelled after them
coreVars == << recvVars, replayVars, tableVars, recentVars, inflightVars, streamVars,
               clientVars, muxVars, connVars >>
bufVars == << BUFF_POOL, buf_live, buf_last >>

djVars == << dj_injector, dj_closed, dj_packets, dj_arrivals, dj_order, dj_last_popped,
            dj_injected, dj_returned, dj_panic, dj_failed >>

wkVars == << wk_updated, wk_last_incoming_time, wk_last_outgoing_time, wk_recv_upload,
            wk_received, wk_now, wk_socket, wk_uploads >>

tcpVars == << conn_pool, tcp_calls, tcp_now, tcp_opened, tcp_sends >>

moreVars == << pairVars, bufVars, djVars, wkVars, tcpVars >>

vars == << coreVars, moreVars >>

(***************************************************************************)
(* The frames the peer's sender produces.                                  *)
(***************************************************************************)
\* the frame numbers sent far ahead of the window
FarNos == { ReplayWindow + 2 * k : k \in 1..FarFrames }
DataNos == (0..MaxFrame) \cup FarNos

\* the body the sender put into data frame n (lengths vary with n)
OrigBody(n) == [i \in 1..((n % 3) + 1) |-> (n + i) % 256]

RunRange(key) == key.first_data..(key.first_data + key.data_len - 1)

\* the parity runs of the sender: consecutive blocks of DataLen data frames,
\* padded to the longest body of the block plus the 2-byte length header
RunKey(first) ==
    [first_data |-> first, data_len |-> DataLen, parity_len |-> ParityLen,
     pad_size |-> 2 + SetMax({ Len(OrigBody(n)) : n \in first..(first + DataLen - 1) })]
Runs == { RunKey(f) : f \in { k * DataLen : k \in 0..MaxFrame } \cap
                             { f \in 0..MaxFrame : f + DataLen - 1 <= MaxFrame } }

(***************************************************************************)
(* fec/mod.rs                                                              *)
(***************************************************************************)
\* pre_encode: 2-byte little-endian length, the packet, zero fill to len
pre_encode(pkt, len) ==
    << Len(pkt) % 256, Len(pkt) \div 256 >> \o pkt \o Zeros(len - Len(pkt) - 2)

\* post_decode slicing 2..body_len: the end of the slice forgets the header
post_decode_short(raw) ==
    IF Len(raw) < 2 THEN None
    ELSE LET body_len == raw[1] + 256 * raw[2] IN
         IF Len(raw) < 2 + body_len THEN None
         ELSE Some(SubSeq(raw, 3, body_len))

\* post_decode: strips the length header, None when the shard is too short
post_decode(raw) ==
    IF Len(raw) < 2 THEN None
    ELSE LET body_len == raw[1] + 256 * raw[2] IN
         IF Len(raw) < 2 + body_len THEN None
         ELSE Some(SubSeq(raw, 3, 2 + body_len))

\* The body of parity frame idx of a run.  The Reed-Solomon arithmetic is
\* kept symbolic: a parity shard stands for the pre-encoded data shards it
\* was computed from.
ParityBody(key, idx) ==
    [parity |-> idx,
     src |-> [j \in 0..(key.data_len - 1) |->
                 pre_encode(OrigBody(key.first_data + j), key.pad_size)]]

\* FrameDecoder::new
FrameDecoder_new(data_shards, parity_shards) ==
    [data_shards |-> data_shards, parity_shards |-> parity_shards,
     present |-> << >>]

\* FrameDecoder::decode: records shard pkt_idx; once data_shards shards are
\* present, a parity shard yields the post-decoded missing data shards in
\* index order.
FrameDecoder_decode(fd, pkt, pkt_idx) ==
    IF pkt_idx >= fd.data_shards + fd.parity_shards
    THEN [fd |-> fd, out |-> None]
    ELSE LET present == (pkt_idx :> pkt) @@ fd.present
             fd2 == [fd EXCEPT !.present = present]
             missing == SortedSeq((0..(fd.data_shards - 1)) \ DOMAIN present)
         IN IF pkt_idx < fd.data_shards
               \/ Cardinality(DOMAIN present) < fd.data_shards
            THEN [fd |-> fd2, out |-> None]
            ELSE [fd |-> fd2,
                  out |-> Some([k \in 1..Len(missing) |->
                                   post_decode(pkt.src[missing[k]]).val])]

(***************************************************************************)
(* session/machine.rs: ReplayFilter                                        *)
(***************************************************************************)
ReplayFilter_default == [top_seqno |-> 0, bottom_seqno |-> 0, seen_seqno |-> {}]

\* the eviction loop forgetting to advance bottom_seqno
ReplayFilter_evict_keep_bottom(rf) ==
    IF rf.top_seqno - rf.bottom_seqno > ReplayWindow
    THEN [rf EXCEPT
            !.seen_seqno = @ \ (rf.bottom_seqno..(rf.top_seqno - ReplayWindow - 1))]
    ELSE rf

\* the eviction loop run while top_seqno - bottom_seqno >= 10000
ReplayFilter_evict_early(rf) ==
    IF rf.top_seqno - rf.bottom_seqno >= ReplayWindow
    THEN [rf EXCEPT
            !.seen_seqno = @ \ (rf.bottom_seqno..(rf.top_seqno - ReplayWindow)),
            !.bottom_seqno = rf.top_seqno - ReplayWindow + 1]
    ELSE rf

\* the while loop of add: evicts bottom_seqno and advances it until the
\* window is ReplayWindow wide again
ReplayFilter_evict(rf) ==
    IF rf.top_seqno - rf.bottom_seqno > ReplayWindow
    THEN [rf EXCEPT
            !.seen_seqno = @ \ (rf.bottom_seqno..(rf.top_seqno - ReplayWindow - 1)),
            !.bottom_seqno = rf.top_seqno - ReplayWindow]
    ELSE rf

\* add without the check of seen_seqno
ReplayFilter_add_no_seen(rf, seqno) ==
    IF seqno < rf.bottom_seqno THEN [rf |-> rf, ret |-> FALSE]
    ELSE [rf |-> ReplayFilter_evict(
                    [rf EXCEPT !.seen_seqno = @ \cup {seqno},
                               !.top_seqno = Max(seqno, @)]),
          ret |-> TRUE]

\* add without the check against bottom_seqno
ReplayFilter_add_no_bottom(rf, seqno) ==
    IF seqno \in rf.seen_seqno THEN [rf |-> rf, ret |-> FALSE]
    ELSE [rf |-> ReplayFilter_evict(
                    [rf EXCEPT !.seen_seqno = @ \cup {seqno},
                               !.top_seqno = Max(seqno, @)]),
          ret |-> TRUE]

\* ReplayFilter::add: the filter after the call and the value returned
ReplayFilter_add(rf, seqno) ==
    IF seqno < rf.bottom_seqno THEN [rf |-> rf, ret |-> FALSE]
    ELSE IF seqno \in rf.seen_seqno THEN [rf |-> rf, ret |-> FALSE]
    ELSE [rf |-> ReplayFilter_evict(
                    [rf EXCEPT !.seen_seqno = @ \cup {seqno},
                               !.top_seqno = Max(seqno, @)]),
          ret |-> TRUE]

(***************************************************************************)
(* session/machine.rs: OobDecoder                                          *)
(* The two SizedCaches hold 100 data frames and 10 parity runs; the model  *)
(* sends fewer, so no entry is evicted and recency order is not kept.      *)
(***************************************************************************)
\* OobDecoder::insert_data
OobDecoder_insert_data(frames, frame_no, data) ==
    (frame_no :> data) @@ frames

RECURSIVE DecodeDataShards(_, _, _, _)
\* the loop over actual_data: ok is FALSE when a body does not fit pad_size
DecodeDataShards(fd, actual, key, k) ==
    IF k > Len(actual) THEN [fd |-> fd, ok |-> TRUE]
    ELSE IF Len(actual[k].body) + 2 > key.pad_size THEN [fd |-> fd, ok |-> FALSE]
    ELSE DecodeDataShards(
            FrameDecoder_decode(fd, pre_encode(actual[k].body, key.pad_size),
                                actual[k].i - key.first_data).fd,
            actual, key, k + 1)

RECURSIVE DecodeParityShards(_, _, _, _, _)
\* the loop over hash_ref (the done mark included): the first shard that
\* completes the decoder returns the missing frames zipped with their seqnos
DecodeParityShards(fd, hash_ref, idxs, key, missing_data_seqnos) ==
    IF idxs = << >> THEN << >>
    ELSE LET par_idx == Head(idxs)
             r == FrameDecoder_decode(fd, hash_ref[par_idx],
                                      Min(key.data_len + par_idx, 255))
         IN IF r.out.some
            THEN [k \in 1..Min(Len(r.out.val), Len(missing_data_seqnos)) |->
                     [i |-> missing_data_seqnos[k], body |-> r.out.val[k]]]
            ELSE DecodeParityShards(r.fd, hash_ref, Tail(idxs), key,
                                    missing_data_seqnos)

\* OobDecoder::insert_parity: the parity space after the call and the
\* reconstructed (seqno, body) pairs
OobDecoder_insert_parity(frames, space, parity_info, parity_idx, parity) ==
    LET old_ref == IF parity_info \in DOMAIN space THEN space[parity_info] ELSE << >>
    IN IF DoneIdx \in DOMAIN old_ref
       THEN [space |-> (parity_info :> old_ref) @@ space, res |-> << >>]
       ELSE
        LET hash_ref == (parity_idx :> parity) @@ old_ref
            present == RunRange(parity_info) \cap DOMAIN frames
            actual_nos == SortedSeq(present)
            actual_data == [k \in 1..Len(actual_nos) |->
                               [i |-> actual_nos[k], body |-> frames[actual_nos[k]]]]
        IN IF Len(actual_data) + Cardinality(DOMAIN hash_ref) >= parity_info.data_len
           THEN LET done_ref == (DoneIdx :> << >>) @@ hash_ref
                    d == DecodeDataShards(
                            FrameDecoder_new(parity_info.data_len, parity_info.parity_len),
                            actual_data, parity_info, 1)
                    missing == SortedSeq(RunRange(parity_info) \ present)
                IN [space |-> (parity_info :> done_ref) @@ space,
                    res |-> IF d.ok
                            THEN DecodeParityShards(d.fd, done_ref,
                                     SortedSeq(DOMAIN done_ref), parity_info, missing)
                            ELSE << >>]
           ELSE [space |-> (parity_info :> hash_ref) @@ space, res |-> << >>]

(***************************************************************************)
(* session/machine.rs: RecvMachine::process_ng                             *)
(***************************************************************************)
RECURSIVE FilterRecovered(_, _, _)
\* the loop over the reconstructed frames: each one passes the replay filter
FilterRecovered(rf, res, k) ==
    IF k > Len(res) THEN [rf |-> rf, toret |-> << >>]
    ELSE LET a == ReplayFilter_add(rf, res[k].i)
             rest == FilterRecovered(a.rf, res, k + 1)
         IN [rf |-> rest.rf,
             toret |-> IF a.ret
                       THEN << [body |-> res[k].body, frame_no |-> res[k].i] >> \o rest.toret
                       ELSE rest.toret]

EmittedNos == DOMAIN emit

\* history bookkeeping: the pairs of out are appended to the emissions
RECURSIVE Record(_, _, _)
Record(em, out, via) ==
    IF out = << >> THEN em
    ELSE LET p == Head(out)
             e == IF p.frame_no \in DOMAIN em
                  THEN [em[p.frame_no] EXCEPT !.count = Min(@ + 1, 2)]
                  ELSE [count |-> 1, body |-> p.body, via |-> via]
         IN Record((p.frame_no :> e) @@ em, Tail(out), via)

HighestEmitted == IF EmittedNos = {} THEN -1 ELSE SetMax(EmittedNos)

\* gap_seqnos is kept as the set of the runs << first, last >> of its keys
GapHas(g, seqno) == \E iv \in g : iv[1] <= seqno /\ seqno <= iv[2]

GapRemove(g, seqno) ==
    UNION { IF iv[1] <= seqno /\ seqno <= iv[2]
            THEN (IF iv[1] < seqno THEN {<< iv[1], seqno - 1 >>} ELSE {})
                 \cup (IF seqno < iv[2] THEN {<< seqno + 1, iv[2] >>} ELSE {})
            ELSE {iv} : iv \in g }

GapInsertRun(g, first, last) == IF first > last THEN g ELSE g \cup {<< first, last >>}

\* RecvLossCalc::new and RecvLossCalc::record, for frames that all arrive
\* within a second: no entry is old enough to be pruned and counted.
RecvLossCalc_new == [last_seen_seqno |-> 0, good_seqnos |-> {}, gap_seqnos |-> {}]

RecvLossCalc_record(r, seqno) ==
    IF GapHas(r.gap_seqnos, seqno)
    THEN [r EXCEPT !.gap_seqnos = GapRemove(@, seqno), !.good_seqnos = @ \cup {seqno}]
    ELSE IF seqno > r.last_seen_seqno
         THEN [last_seen_seqno |-> seqno,
               good_seqnos |-> r.good_seqnos \cup {seqno},
               gap_seqnos |-> GapInsertRun(r.gap_seqnos, r.last_seen_seqno + 1, seqno - 1)]
         ELSE r

\* process_ng on a Data frame that records the loss statistics before it asks
\* the replay filter
ProcessData_record_first(frame_no) ==
    LET body == OrigBody(frame_no)
        a == ReplayFilter_add(replay_filter, frame_no)
        out == << [body |-> body, frame_no |-> frame_no] >>
    IN /\ last_in' = [kind |-> "Data", frame_no |-> frame_no]
       /\ delivered' = delivered \cup {[kind |-> "Data", frame_no |-> frame_no]}
       /\ high_before' = HighestEmitted
       /\ rloss' = RecvLossCalc_record(rloss, frame_no)
       /\ IF ~a.ret
          THEN /\ last_res' = None
               /\ UNCHANGED << replay_filter, data_frames, parity_space, emit >>
          ELSE /\ replay_filter' = a.rf
               /\ data_frames' = OobDecoder_insert_data(data_frames, frame_no, body)
               /\ last_res' = Some(out)
               /\ emit' = Record(emit, out, "direct")
               /\ UNCHANGED parity_space

\* process_ng on a Data frame
ProcessData(frame_no) ==
    LET body == OrigBody(frame_no)
        a == ReplayFilter_add(replay_filter, frame_no)
        out == << [body |-> body, frame_no |-> frame_no] >>
    IN /\ last_in' = [kind |-> "Data", frame_no |-> frame_no]
       /\ delivered' = delivered \cup {[kind |-> "Data", frame_no |-> frame_no]}
       /\ high_before' = HighestEmitted
       /\ IF ~a.ret
          THEN /\ last_res' = None
               /\ UNCHANGED << replay_filter, data_frames, parity_space, rloss, emit >>
          ELSE /\ replay_filter' = a.rf
               /\ rloss' = RecvLossCalc_record(rloss, frame_no)
               /\ data_frames' = OobDecoder_insert_data(data_frames, frame_no, body)
               /\ last_res' = Some(out)
               /\ emit' = Record(emit, out, "direct")
               /\ UNCHANGED parity_space

\* process_ng on a Parity frame
ProcessParity(key, parity_index) ==
    LET r == OobDecoder_insert_parity(data_frames, parity_space, key, parity_index,
                                      ParityBody(key, parity_index))
        f == FilterRecovered(replay_filter, r.res, 1)
    IN /\ last_in' = [kind |-> "Parity", key |-> key, parity_index |-> parity_index]
       /\ delivered' = delivered \cup
              {[kind |-> "Parity", key |-> key, parity_index |-> parity_index]}
       /\ high_before' = HighestEmitted
       /\ parity_space' = r.space
       /\ replay_filter' = f.rf
       /\ last_res' = IF f.toret # << >> THEN Some(f.toret) ELSE None
       /\ emit' = Record(emit, f.toret, "fec")
       /\ UNCHANGED << data_frames, rloss >>

\* process_ng on a packet that recv_crypt.decrypt refuses: the error is returned
ProcessAeadError ==
    /\ last_in' = [kind |-> "Forged"]
    /\ last_res' = AeadError
    /\ high_before' = HighestEmitted
    /\ UNCHANGED << replay_filter, data_frames, parity_space, rloss, emit, delivered >>

\* process_ng on a packet that decrypts to something depad does not parse
ProcessUnparsable ==
    /\ last_in' = [kind |-> "Unparsable"]
    /\ last_res' = None
    /\ high_before' = HighestEmitted
    /\ UNCHANGED << replay_filter, data_frames, parity_space, rloss, emit, delivered >>

InitSession ==
    /\ replay_filter = ReplayFilter_default
    /\ data_frames = << >>
    /\ parity_space = << >>
    /\ rloss = RecvLossCalc_new
    /\ last_in = [kind |-> "none"]
    /\ last_res = None
    /\ emit = << >>
    /\ high_before = -1
    /\ delivered = {}
    /\ rf_calls = << >>
    /\ rf_accepted = << >>

NextRecv ==
    \/ \E n \in DataNos : ProcessData(n) /\ UNCHANGED << replayVars, tableVars, recentVars, inflightVars, streamVars, clientVars, muxVars, connVars, moreVars >>
    \/ \E key \in Runs : \E i \in 0..(ParityLen - 1) :
          ProcessParity(key, i) /\ UNCHANGED << replayVars, tableVars, recentVars, inflightVars, streamVars, clientVars, muxVars, connVars, moreVars >>
    \/ ProcessAeadError /\ UNCHANGED << replayVars, tableVars, recentVars, inflightVars, streamVars, clientVars, muxVars, connVars, moreVars >>
    \/ ProcessUnparsable /\ UNCHANGED << replayVars, tableVars, recentVars, inflightVars, streamVars, clientVars, muxVars, connVars, moreVars >>

(***************************************************************************)
(* The replay filter on its own: add called with any seqno in any order.   *)
(***************************************************************************)
\* seqnos around both ends of the window
ReplaySeqnos == DataNos \cup {ReplayWindow, ReplayWindow + 1}

EverAccepted(s) == s \in DOMAIN rf_accepted

\* one call of ReplayFilter::add
Add(seqno) ==
    LET a == ReplayFilter_add(replay_filter, seqno)
        call == [seqno |-> seqno, ret |-> a.ret,
                 below |-> seqno < replay_filter.bottom_seqno,
                 accepted_before |-> EverAccepted(seqno)]
    IN /\ replay_filter' = a.rf
       /\ rf_calls' = IF rf_calls = << >> THEN << call >>
                      ELSE << rf_calls[Len(rf_calls)], call >>
       /\ rf_accepted' =
             IF a.ret
             THEN (seqno :> (IF EverAccepted(seqno)
                             THEN Min(rf_accepted[seqno] + 1, 2) ELSE 1)) @@ rf_accepted
             ELSE rf_accepted
       /\ UNCHANGED << data_frames, parity_space, rloss, last_in, last_res, emit,
                       high_before, delivered >>

NextReplay == (\E s \in ReplaySeqnos : Add(s)) /\ UNCHANGED << tableVars, recentVars, inflightVars, streamVars, clientVars, muxVars, connVars, moreVars >>

(***************************************************************************)
(* The replay filter once its window is nearly full: the seqnos from 0 to  *)
(* ReplayWindow - 1 have been added in increasing order, but for some of   *)
(* Holes.                                                                  *)
(***************************************************************************)
Holes == {1, ReplayWindow - 2}
WindowSeqnos == Holes \cup (ReplayWindow..(ReplayWindow + WindowAhead))

NearlyFull(missing) ==
    [top_seqno |-> ReplayWindow - 1, bottom_seqno |-> 0,
     seen_seqno |-> (0..(ReplayWindow - 1)) \ missing]

InitWindow ==
    /\ replay_filter \in { NearlyFull(missing) : missing \in SUBSET Holes }
    /\ data_frames = << >>
    /\ parity_space = << >>
    /\ rloss = RecvLossCalc_new
    /\ last_in = [kind |-> "none"]
    /\ last_res = None
    /\ emit = << >>
    /\ high_before = -1
    /\ delivered = {}
    /\ rf_calls = << >>
    /\ rf_accepted = << >>

NextWindow == (\E s \in WindowSeqnos : Add(s)) /\ UNCHANGED << tableVars, recentVars, inflightVars, streamVars, clientVars, muxVars, connVars, moreVars >>

(***************************************************************************)
(* listener/table.rs: ShardedAddrs and SessionTable                        *)
(***************************************************************************)
Tokens == {"t1", "t2"}
Addrs == {"a1", "a2"}
ShardIds == {0, 1}

\* the clock advances in steps of TickMs up to MaxTicks steps
TickMs == RecentMs \div 2

\* ShardedAddrs::new
ShardedAddrs_new(initial_shard, initial_addr, now) ==
    initial_shard :> [addr |-> initial_addr, usage |-> now]

\* the shards passing the filter of get_addr
RecentlyUsed(map, now) ==
    { i \in DOMAIN map : now - map[i].usage < RecentMs }

\* the shards max_by_key can pick: those with the latest update time
MostRecent(map) ==
    { i \in DOMAIN map : \A j \in DOMAIN map : map[j].usage <= map[i].usage }

\* get_addr falling back to any shard when none was recently used
get_addr_any(map, now) ==
    IF RecentlyUsed(map, now) = {}
    THEN { map[i].addr : i \in DOMAIN map }
    ELSE { map[i].addr : i \in RecentlyUsed(map, now) }

\* ShardedAddrs::get_addr: the addresses it can return
get_addr(map, now) ==
    IF RecentlyUsed(map, now) = {}
    THEN { map[i].addr : i \in MostRecent(map) }
    ELSE { map[i].addr : i \in RecentlyUsed(map, now) }

\* insert_addr keeping the update time of a shard it overwrites
insert_addr_keep_time(map, index, addr, now) ==
    [map |-> (index :> [addr |-> addr,
                        usage |-> IF index \in DOMAIN map THEN map[index].usage ELSE now])
             @@ map,
     old |-> IF index \in DOMAIN map THEN Some(map[index].addr) ELSE None]

\* ShardedAddrs::insert_addr: the map after the call and the address replaced
insert_addr(map, index, addr, now) ==
    [map |-> (index :> [addr |-> addr, usage |-> now]) @@ map,
     old |-> IF index \in DOMAIN map THEN Some(map[index].addr) ELSE None]

\* removal of a key from a map
Remove(m, k) == [x \in DOMAIN m \ {k} |-> m[x]]
RemoveAll(m, ks) == [x \in DOMAIN m \ ks |-> m[x]]

\* SessionTable::rebind
rebind(addr, shard_id, token) ==
    /\ IF token \in DOMAIN token_to_sess
       THEN LET r == insert_addr(token_to_sess[token], shard_id, addr, now_ms)
                cleared == IF r.old.some THEN Remove(addr_to_token, r.old.val)
                           ELSE addr_to_token
            IN /\ token_to_sess' = [token_to_sess EXCEPT ![token] = r.map]
               /\ addr_to_token' = (addr :> token) @@ cleared
               /\ tbl_last' = [op |-> "rebind", token |-> token,
                               addr |-> addr, shard_id |-> shard_id]
       ELSE /\ tbl_last' = [op |-> "other"]
            /\ UNCHANGED << token_to_sess, addr_to_token >>
    /\ UNCHANGED now_ms

\* SessionTable::delete
delete(token) ==
    /\ IF token \in DOMAIN token_to_sess
       THEN /\ token_to_sess' = Remove(token_to_sess, token)
            /\ addr_to_token' =
                 RemoveAll(addr_to_token,
                           { token_to_sess[token][i].addr : i \in DOMAIN token_to_sess[token] })
       ELSE UNCHANGED << token_to_sess, addr_to_token >>
    /\ tbl_last' = [op |-> "other"]
    /\ UNCHANGED now_ms

\* SessionTable::lookup: the session is named by its token
lookup(self, addr) ==
    IF addr \in DOMAIN self.addr_to_token
          /\ self.addr_to_token[addr] \in DOMAIN self.token_to_sess
    THEN Some(self.addr_to_token[addr]) ELSE None

\* The session table as one value.
SessionTable == [token_to_sess |-> token_to_sess, addr_to_token |-> addr_to_token]

\* SessionTable::new_sess, with the ShardedAddrs the listener builds for a
\* freshly minted token
new_sess(token, initial_shard, initial_addr) ==
    /\ token \notin DOMAIN token_to_sess
    /\ token_to_sess' =
         (token :> ShardedAddrs_new(initial_shard, initial_addr, now_ms)) @@ token_to_sess
    /\ tbl_last' = [op |-> "other"]
    /\ UNCHANGED << addr_to_token, now_ms >>

\* one call of get_addr on a session's sharded_addrs
GetAddr(token) ==
    /\ token \in DOMAIN token_to_sess
    /\ \E a \in get_addr(token_to_sess[token], now_ms) :
          tbl_last' = [op |-> "get_addr", token |-> token, ret |-> a, at |-> now_ms,
                       after |-> IF tbl_last.op = "rebind" /\ tbl_last.token = token
                                 THEN Some([addr |-> tbl_last.addr,
                                            shard_id |-> tbl_last.shard_id])
                                 ELSE None]
    /\ UNCHANGED << token_to_sess, addr_to_token, now_ms >>

\* time passes
TickTable ==
    /\ now_ms < MaxTicks * TickMs
    /\ now_ms' = now_ms + TickMs
    /\ UNCHANGED << token_to_sess, addr_to_token, tbl_last >>

InitTable ==
    /\ token_to_sess = << >>
    /\ addr_to_token = << >>
    /\ now_ms = 0
    /\ tbl_last = [op |-> "other"]

NextTable ==
    \/ \E t \in Tokens, i \in ShardIds, a \in Addrs :
          new_sess(t, i, a) /\ UNCHANGED << recvVars, replayVars, recentVars, inflightVars, streamVars, clientVars, muxVars, connVars, moreVars >>
    \/ \E t \in Tokens, i \in ShardIds, a \in Addrs :
          rebind(a, i, t) /\ UNCHANGED << recvVars, replayVars, recentVars, inflightVars, streamVars, clientVars, muxVars, connVars, moreVars >>
    \/ \E t \in Tokens : delete(t) /\ UNCHANGED << recvVars, replayVars, recentVars, inflightVars, streamVars, clientVars, muxVars, connVars, moreVars >>
    \/ \E t \in Tokens : GetAddr(t) /\ UNCHANGED << recvVars, replayVars, recentVars, inflightVars, streamVars, clientVars, muxVars, connVars, moreVars >>
    \/ TickTable /\ UNCHANGED << recvVars, replayVars, recentVars, inflightVars, streamVars, clientVars, muxVars, connVars, moreVars >>

(***************************************************************************)
(* recfilter.rs: RecentFilter                                              *)
(***************************************************************************)
\* the handshake ciphertexts offered to the filter
Vals == {"v1", "v2"}

\* blake3::hash, taken to be collision-free on Vals
blake3_hash(val) == << "blake3", val >>

\* the clock advances in steps of TickS up to MaxRecentTicks steps
TickS == RecentTtl \div 2

\* RecentFilter::new
RecentFilter_new == [seen |-> << >>, expiry |-> << >>]

\* a cleanup that drops at most one expired entry per call
RecentFilter_cleanup_once(rf, now) ==
    IF rf.expiry # << >> /\ now - rf.expiry[1].time > RecentTtl
    THEN [seen |-> [h \in DOMAIN rf.seen \ {rf.expiry[1].hash} |-> rf.seen[h]],
          expiry |-> Tail(rf.expiry)]
    ELSE rf

RECURSIVE RecentFilter_cleanup(_, _)
\* the cleanup loop of check: pops every expired entry off the front
RecentFilter_cleanup(rf, now) ==
    IF rf.expiry # << >> /\ now - rf.expiry[1].time > RecentTtl
    THEN RecentFilter_cleanup(
            [seen |-> [h \in DOMAIN rf.seen \ {rf.expiry[1].hash} |-> rf.seen[h]],
             expiry |-> Tail(rf.expiry)], now)
    ELSE rf

\* RecentFilter::check: the filter after the call and the value returned
RecentFilter_check(rf, val, now) ==
    LET cleaned == RecentFilter_cleanup(rf, now)
        key == blake3_hash(val)
    IN IF key \in DOMAIN cleaned.seen
       THEN [rf |-> cleaned, ret |-> FALSE]
       ELSE [rf |-> [seen |-> (key :> now) @@ cleaned.seen,
                     expiry |-> Append(cleaned.expiry, [time |-> now, hash |-> key])],
             ret |-> TRUE]

\* one call of check
Check(val) ==
    LET c == RecentFilter_check(recent_filter, val, now_s)
    IN /\ recent_filter' = c.rf
       /\ last_check' = [val |-> val, ret |-> c.ret, at |-> now_s,
                         prev |-> IF val \in DOMAIN last_accept
                                  THEN Some(last_accept[val]) ELSE None,
                         prev_reject |-> IF val \in DOMAIN last_reject
                                         THEN Some(last_reject[val]) ELSE None]
       /\ last_accept' = IF c.ret THEN (val :> now_s) @@ last_accept ELSE last_accept
       /\ last_reject' = IF c.ret THEN last_reject ELSE (val :> now_s) @@ last_reject
       /\ UNCHANGED now_s

\* time passes
TickRecent ==
    /\ now_s < MaxRecentTicks * TickS
    /\ now_s' = now_s + TickS
    /\ UNCHANGED << recent_filter, last_accept, last_reject, last_check >>

InitRecent ==
    /\ recent_filter = RecentFilter_new
    /\ now_s = 0
    /\ last_accept = << >>
    /\ last_reject = << >>
    /\ last_check = [val |-> "none"]

NextRecent ==
    \/ \E v \in Vals : Check(v) /\ UNCHANGED << recvVars, replayVars, tableVars, inflightVars, streamVars, clientVars, muxVars, connVars, moreVars >>
    \/ TickRecent /\ UNCHANGED << recvVars, replayVars, tableVars, inflightVars, streamVars, clientVars, muxVars, connVars, moreVars >>

(***************************************************************************)
(* mux/relconn/inflight.rs: Inflight                                       *)
(* rto() and rtt_var() are computed from floating-point averages of the    *)
(* round-trip samples (inflight/calc.rs); the operations take them as      *)
(* arguments and the callers draw them from Rtos and RttVars.  An entry    *)
(* keeps the fields the operations read back: send_time, delivered and     *)
(* delivered_time only feed those averages.  Every Instant::now() of one   *)
(* operation reads the same tick.                                          *)
(***************************************************************************)
Seqnos == 0..(MaxSeqno - 1)
Rtos == (AckDelay + 1)..MaxRto
RttVars == {0, 1}

\* usize subtraction.  A release build wraps modulo 2^64; the value is held
\* as the residue of least magnitude, so -1 stands for 2^64 - 1.  A debug
\* build panics where the result is negative.
usize_sub(a, b) == a - b

\* 2.0f64.powi(n)
RECURSIVE powi2(_)
powi2(n) == IF n = 0 THEN 1 ELSE 2 * powi2(n - 1)

InflightEntry(seqno, msg, rto) ==
    [seqno |-> seqno, retrans |-> 0, payload |-> msg, retrans_time |-> rto,
     known_lost |-> FALSE]

Inflight_new == [segments |-> << >>, rtos |-> << >>, lost_count |-> 0]

Inflight_unacked(inf) == Cardinality(DOMAIN inf.segments)

Inflight_inflight(inf) == usize_sub(Cardinality(DOMAIN inf.segments), inf.lost_count)

Inflight_lost_count(inf) == inf.lost_count

Inflight_last_minus_first(inf) ==
    IF DOMAIN inf.segments = {} THEN 0
    ELSE SetMax(DOMAIN inf.segments) - SetMin(DOMAIN inf.segments)

\* remove_rto that leaves an emptied bucket in the index
remove_rto_keep_bucket(rtos, retrans_time, seqno) ==
    IF retrans_time \in DOMAIN rtos
    THEN [rtos EXCEPT ![retrans_time] = SelectSeq(@, LAMBDA v : v # seqno)]
    ELSE rtos

remove_rto(rtos, retrans_time, seqno) ==
    IF retrans_time \in DOMAIN rtos
    THEN LET kept == SelectSeq(rtos[retrans_time], LAMBDA v : v # seqno)
         IN IF kept = << >> THEN Remove(rtos, retrans_time)
            ELSE [rtos EXCEPT ![retrans_time] = kept]
    ELSE rtos

\* self.rtos.entry(t).or_default().push(seqno)
push_rto(rtos, t, seqno) ==
    IF t \in DOMAIN rtos THEN [rtos EXCEPT ![t] = Append(@, seqno)]
    ELSE (t :> << seqno >>) @@ rtos

\* The loop over mark_as_lost: the segments below the acknowledged one.
RECURSIVE EarlyRetransmit(_, _, _, _, _)
EarlyRetransmit(inf, below, acked_seg, now, rtt_var) ==
    IF below = << >> THEN inf
    ELSE LET seqno == Head(below)
             seg == inf.segments[seqno]
             next == IF /\ seg.retrans = 0
                        /\ seg.retrans_time + rtt_var * 4 <= acked_seg.retrans_time
                        /\ seg.retrans_time > now
                     THEN [inf EXCEPT
                             !.segments[seqno].retrans_time = now,
                             !.rtos = push_rto(remove_rto(inf.rtos, seg.retrans_time, seqno),
                                               now, seqno)]
                     ELSE inf
         IN EarlyRetransmit(next, Tail(below), acked_seg, now, rtt_var)

Inflight_mark_acked(inf, acked_seqno, now, rtt_var) ==
    IF acked_seqno \in DOMAIN inf.segments
    THEN LET acked_seg == inf.segments[acked_seqno]
             removed == [inf EXCEPT
                           !.segments = Remove(inf.segments, acked_seqno),
                           !.rtos = remove_rto(inf.rtos, acked_seg.retrans_time, acked_seqno),
                           !.lost_count = IF acked_seg.known_lost
                                          THEN usize_sub(inf.lost_count, 1)
                                          ELSE inf.lost_count]
             mark_as_lost == SortedSeq({ f \in DOMAIN removed.segments : f < acked_seqno })
         IN [inf |-> EarlyRetransmit(removed, mark_as_lost, acked_seg, now, rtt_var),
             ret |-> TRUE]
    ELSE [inf |-> inf, ret |-> FALSE]

RECURSIVE MarkAckedEach(_, _, _, _, _)
MarkAckedEach(inf, to_remove, sum, now, rtt_var) ==
    IF to_remove = << >> THEN [inf |-> inf, ret |-> sum]
    ELSE LET r == Inflight_mark_acked(inf, Head(to_remove), now, rtt_var)
         IN MarkAckedEach(r.inf, Tail(to_remove), sum + (IF r.ret THEN 1 ELSE 0),
                          now, rtt_var)

Inflight_mark_acked_lt(inf, seqno, now, rtt_var) ==
    MarkAckedEach(inf, SortedSeq({ k \in DOMAIN inf.segments : k < seqno }), 0,
                  now, rtt_var)

Inflight_mark_lost(inf, seqno) ==
    IF seqno \in DOMAIN inf.segments
    THEN LET seg == inf.segments[seqno]
         IN [inf |-> [inf EXCEPT
                        !.segments[seqno].known_lost = TRUE,
                        !.rtos = remove_rto(inf.rtos, seg.retrans_time, seqno),
                        !.lost_count = IF ~seg.known_lost THEN inf.lost_count + 1
                                       ELSE inf.lost_count],
             ret |-> TRUE]
    ELSE [inf |-> inf, ret |-> FALSE]

\* The caller passes a seqno that has no entry (assert!(prev.is_none())).
Inflight_insert(inf, seqno, msg, now, rto_duration) ==
    LET rto == now + rto_duration
    IN [inf EXCEPT
          !.segments = (seqno :> InflightEntry(seqno, msg, rto)) @@ inf.segments,
          !.rtos = push_rto(inf.rtos, rto, seqno)]

Inflight_first_rto(inf) ==
    IF DOMAIN inf.rtos = {} THEN None
    ELSE LET instant == SetMin(DOMAIN inf.rtos)
         IN Some([seqno |-> inf.rtos[instant][1], time |-> instant])

Inflight_retransmit(inf, seqno, now, rto) ==
    IF seqno \in DOMAIN inf.segments
    THEN LET entry == inf.segments[seqno]
             new_retrans == now + rto * powi2(entry.retrans + 1)
         IN [inf |-> [inf EXCEPT
                        !.segments[seqno] = [entry EXCEPT !.retrans = entry.retrans + 1,
                                                          !.retrans_time = new_retrans,
                                                          !.known_lost = FALSE],
                        !.rtos = push_rto(remove_rto(inf.rtos, entry.retrans_time, seqno),
                                          new_retrans, seqno),
                        !.lost_count = usize_sub(inf.lost_count, 1)],
             ret |-> Some(entry.payload)]
    ELSE [inf |-> inf, ret |-> None]

\* The payload of the Data message with this seqno.
Payload(seqno) == << "data", seqno >>

(***************************************************************************)
(* The Inflight on its own: its operations called in any order.  insert    *)
(* is given fresh seqnos, as ConnVars gives it next_free_seqno.            *)
(***************************************************************************)
Insert ==
    /\ next_free_seqno < MaxSeqno
    /\ \E rto \in Rtos :
          inflight' = Inflight_insert(inflight, next_free_seqno,
                                      Payload(next_free_seqno), now_tk, rto)
    /\ next_free_seqno' = next_free_seqno + 1
    /\ inf_last' = [op |-> "insert", seqno |-> next_free_seqno]
    /\ UNCHANGED now_tk

MarkAcked(seqno) ==
    /\ \E rtt_var \in RttVars :
          LET r == Inflight_mark_acked(inflight, seqno, now_tk, rtt_var)
          IN /\ inflight' = r.inf
             /\ inf_last' = [op |-> "mark_acked", seqno |-> seqno, ret |-> r.ret]
    /\ UNCHANGED << next_free_seqno, now_tk >>

MarkAckedLt(seqno) ==
    /\ \E rtt_var \in RttVars :
          LET r == Inflight_mark_acked_lt(inflight, seqno, now_tk, rtt_var)
          IN /\ inflight' = r.inf
             /\ inf_last' = [op |-> "mark_acked_lt", seqno |-> seqno, ret |-> r.ret]
    /\ UNCHANGED << next_free_seqno, now_tk >>

MarkLost(seqno) ==
    /\ LET r == Inflight_mark_lost(inflight, seqno)
       IN /\ inflight' = r.inf
          /\ inf_last' = [op |-> "mark_lost", seqno |-> seqno, ret |-> r.ret]
    /\ UNCHANGED << next_free_seqno, now_tk >>

Retransmit(seqno) ==
    /\ seqno \in DOMAIN inflight.segments => inflight.segments[seqno].retrans < MaxRetrans
    /\ \E rto \in Rtos :
          LET r == Inflight_retransmit(inflight, seqno, now_tk, rto)
          IN /\ inflight' = r.inf
             /\ inf_last' = [op |-> "retransmit", seqno |-> seqno, ret |-> r.ret.some]
    /\ UNCHANGED << next_free_seqno, now_tk >>

TickInflight ==
    /\ now_tk < MaxStreamTicks
    /\ now_tk' = now_tk + 1
    /\ UNCHANGED << inflight, next_free_seqno, inf_last >>

InitInflight ==
    /\ inflight = Inflight_new
    /\ next_free_seqno = 0
    /\ now_tk = 0
    /\ inf_last = [op |-> "none"]

NextInflight ==
    \/ Insert /\ UNCHANGED << recvVars, replayVars, tableVars, recentVars, streamVars, clientVars, muxVars, connVars, moreVars >>
    \/ \E s \in Seqnos : MarkAcked(s) /\ UNCHANGED << recvVars, replayVars, tableVars, recentVars, streamVars, clientVars, muxVars, connVars, moreVars >>
    \/ \E s \in 0..MaxSeqno :
          MarkAckedLt(s) /\ UNCHANGED << recvVars, replayVars, tableVars, recentVars, streamVars, clientVars, muxVars, connVars, moreVars >>
    \/ \E s \in Seqnos : MarkLost(s) /\ UNCHANGED << recvVars, replayVars, tableVars, recentVars, streamVars, clientVars, muxVars, connVars, moreVars >>
    \/ \E s \in Seqnos : Retransmit(s) /\ UNCHANGED << recvVars, replayVars, tableVars, recentVars, streamVars, clientVars, muxVars, connVars, moreVars >>
    \/ TickInflight /\ UNCHANGED << recvVars, replayVars, tableVars, recentVars, streamVars, clientVars, muxVars, connVars, moreVars >>

(***************************************************************************)
(* mux/structs.rs: Message and Reorderer.  One stream is modelled, so the  *)
(* stream_id of a message is left out.                                     *)
(***************************************************************************)
Rel(kind, seqno, payload) == [kind |-> kind, seqno |-> seqno, payload |-> payload]

Rst == Rel("Rst", 0, << >>)

Reorderer_default == [pkts |-> << >>, min |-> 0]

\* Every frame is taken to have been received; it is kept unless its seqno
\* lies below the contiguous prefix already emitted.
Reorderer_insert(r, seq, item) ==
    [r |-> IF seq >= r.min THEN [r EXCEPT !.pkts = (seq :> item) @@ r.pkts] ELSE r,
     ret |-> TRUE]

\* Removes and returns the contiguous run of frames that starts at min.
RECURSIVE Reorderer_take(_)
Reorderer_take(r) ==
    IF r.min \in DOMAIN r.pkts
    THEN LET rest == Reorderer_take([pkts |-> Remove(r.pkts, r.min), min |-> r.min + 1])
         IN [r |-> rest.r, out |-> << r.pkts[r.min] >> \o rest.out]
    ELSE [r |-> r, out |-> << >>]

\* bincode::serialize of a Vec<Seqno> and safe_deserialize of the bytes.
bincode_serialize(v) == << "bincode", Len(v), v >>
safe_deserialize(bytes) == bytes[3]

RECURSIVE Concat(_)
\* the byte stream made of a sequence of payloads
Concat(pkts) == IF pkts = << >> THEN << >> ELSE Head(pkts) \o Concat(Tail(pkts))

(***************************************************************************)
(* mux/relconn/connvars.rs: ConnVars.  The congestion controller, the      *)
(* pacer and last_loss only decide cwnd() and the pacing delay: an event   *)
(* reads cwnd() as any value of Cwnds (CUBIC keeps it at 4 or more) and    *)
(* the pacer as ready.  A handler is an operator from the ConnVars to an   *)
(* outcome: the new ConnVars, the messages transmitted, the bytes written  *)
(* to the reader, whether it bailed (err) and whether an assertion failed. *)
(***************************************************************************)
Cwnds == {CwndMin, CwndInit}

ConnVars_default ==
    [inflight |-> Inflight_new, next_free_seqno |-> 0,
     delayed_ack_timer |-> None, ack_seqnos |-> {},
     reorderer |-> Reorderer_default, lowest_unseen |-> 0,
     closing |-> FALSE, write_fragments |-> << >>, lost_seqnos |-> {}]

Outcome(cv, sent, out, err, panic) ==
    [cv |-> cv, sent |-> sent, out |-> out, err |-> err, panic |-> panic]

\* a <= b on usize values, with a negative residue read as 2^64 + a
usize_le(a, b) == IF (a < 0) = (b < 0) THEN a <= b ELSE b < 0

\* assert_eq!(self.inflight.lost_count(), self.lost_seqnos.len())
LostCountAgrees(cv) == Inflight_lost_count(cv.inflight) = Cardinality(cv.lost_seqnos)

\* check_closed looking at the flag alone
check_closed_flag(cv) == cv.closing

check_closed(cv) == cv.closing /\ Inflight_unacked(cv.inflight) = 0

\* can_retransmit looking at the seqno span alone
can_retransmit_span(cv, cwnd) == Inflight_last_minus_first(cv.inflight) <= MaxSpan

can_retransmit(cv, cwnd) ==
    /\ usize_le(Inflight_inflight(cv.inflight), cwnd)
    /\ Inflight_last_minus_first(cv.inflight) <= MaxSpan

can_write_new(cv, cwnd) ==
    /\ can_retransmit(cv, cwnd)
    /\ usize_le(Inflight_unacked(cv.inflight), cwnd)
    /\ ~cv.closing
    /\ cv.lost_seqnos = {}

force_ack(cv) == Cardinality(cv.ack_seqnos) >= ACK_BATCH

\* The futures of next_event that are ready when first polled.
RtoReady(cv, now) ==
    LET first_rto == Inflight_first_rto(cv.inflight)
    IN first_rto.some /\ first_rto.val.time <= now

RetransmitReady(cv, cwnd) == cv.lost_seqnos # {} /\ can_retransmit(cv, cwnd)

\* ack_timer without force_ack
AckTimerReady_timer(cv, now) == cv.delayed_ack_timer.some /\ cv.delayed_ack_timer.val <= now

AckTimerReady(cv, now) ==
    \/ force_ack(cv)
    \/ cv.delayed_ack_timer.some /\ cv.delayed_ack_timer.val <= now

process_Retransmit(cv, seqno, now, rto) ==
    LET r == Inflight_retransmit(cv.inflight, seqno, now, rto)
    IN IF r.ret.some
       THEN Outcome([cv EXCEPT !.inflight = r.inf, !.lost_seqnos = @ \ {seqno}],
                    {r.ret.val}, << >>, FALSE, FALSE)
       ELSE Outcome(cv, {}, << >>, FALSE, FALSE)

process_Closing(cv) ==
    LET next == [cv EXCEPT !.closing = TRUE]
    IN Outcome(next, {}, << >>, check_closed(next), FALSE)

\* the Rto handler without the actor's own record of the loss
process_Rto_flag_only(cv, seqno) ==
    Outcome([cv EXCEPT !.inflight = Inflight_mark_lost(cv.inflight, seqno).inf],
            {}, << >>, FALSE, FALSE)

process_Rto(cv, seqno) ==
    Outcome([cv EXCEPT !.inflight = Inflight_mark_lost(cv.inflight, seqno).inf,
                       !.lost_seqnos = @ \cup {seqno}],
            {}, << >>, FALSE, FALSE)

\* The loop over the selectively acknowledged seqnos.
RECURSIVE AckEach(_, _, _, _)
AckEach(cv, seqnos, now, rtt_var) ==
    IF seqnos = << >> THEN cv
    ELSE LET seqno == Head(seqnos)
             r == Inflight_mark_acked(cv.inflight, seqno, now, rtt_var)
         IN AckEach([cv EXCEPT !.lost_seqnos = @ \ {seqno}, !.inflight = r.inf],
                    Tail(seqnos), now, rtt_var)

process_DataAck(cv, seqno, payload, now, rtt_var) ==
    LET seqnos == safe_deserialize(payload)
        lt == Inflight_mark_acked_lt(cv.inflight, seqno, now, rtt_var)
        cumulative == [cv EXCEPT !.inflight = lt.inf,
                                 !.lost_seqnos = { v \in @ : v >= seqno }]
        next == AckEach(cumulative, seqnos, now, rtt_var)
    IN IF ~LostCountAgrees(cv) \/ ~LostCountAgrees(cumulative)
       THEN Outcome(cumulative, {}, << >>, FALSE, TRUE)
       ELSE Outcome(next, {}, << >>, check_closed(next), FALSE)

process_Data_unordered(cv, seqno, payload, now) ==
    LET ins == Reorderer_insert(cv.reorderer, seqno, payload)
        tk == Reorderer_take(ins.r)
    IN Outcome([cv EXCEPT
                  !.delayed_ack_timer = IF ~cv.delayed_ack_timer.some
                                        THEN Some(now + AckDelay) ELSE @,
                  !.ack_seqnos = IF ins.ret THEN @ \cup {seqno} ELSE @,
                  !.reorderer = tk.r,
                  !.lowest_unseen = @ + Len(tk.out)],
               {}, IF seqno >= cv.reorderer.min /\ seqno \notin DOMAIN cv.reorderer.pkts
                   THEN payload ELSE << >>, FALSE, FALSE)

\* the Data handler leaving the delayed-ACK timer alone
process_Data_no_timer(cv, seqno, payload, now) ==
    LET ins == Reorderer_insert(cv.reorderer, seqno, payload)
        times == Reorderer_take(ins.r)
    IN Outcome([cv EXCEPT
                  !.ack_seqnos = IF ins.ret THEN @ \cup {seqno} ELSE @,
                  !.reorderer = times.r,
                  !.lowest_unseen = @ + Len(times.out)],
               {}, Concat(times.out), FALSE, FALSE)

process_Data(cv, seqno, payload, now) ==
    LET ins == Reorderer_insert(cv.reorderer, seqno, payload)
        times == Reorderer_take(ins.r)
    IN Outcome([cv EXCEPT
                  !.delayed_ack_timer = IF ~cv.delayed_ack_timer.some
                                        THEN Some(now + AckDelay) ELSE @,
                  !.ack_seqnos = IF ins.ret THEN @ \cup {seqno} ELSE @,
                  !.reorderer = times.r,
                  !.lowest_unseen = @ + Len(times.out)],
               {}, Concat(times.out), FALSE, FALSE)

process_NewWrite(cv, bts, now, rto) ==
    LET seqno == cv.next_free_seqno
        msg == Rel("Data", seqno, bts)
    IN Outcome([cv EXCEPT
                  !.next_free_seqno = seqno + 1,
                  !.inflight = Inflight_insert(cv.inflight, seqno, msg, now, rto)],
               {msg}, << >>, FALSE, Len(bts) > MSS)

\* the AckTimer handler with a DataAck that acknowledges nothing cumulatively
process_AckTimer_no_cum(cv) ==
    LET ack_seqnos == SortedSeq(cv.ack_seqnos)
        encoded_acks == bincode_serialize(ack_seqnos)
    IN Outcome([cv EXCEPT !.ack_seqnos = {}, !.delayed_ack_timer = None],
               {Rel("DataAck", 0, encoded_acks)}, << >>, FALSE,
               Len(ack_seqnos) > ACK_BATCH)

process_AckTimer(cv) ==
    LET ack_seqnos == SortedSeq(cv.ack_seqnos)
        encoded_acks == bincode_serialize(ack_seqnos)
    IN Outcome([cv EXCEPT !.ack_seqnos = {}, !.delayed_ack_timer = None],
               {Rel("DataAck", cv.lowest_unseen, encoded_acks)}, << >>, FALSE,
               Len(ack_seqnos) > ACK_BATCH)

(***************************************************************************)
(* mux/relconn/mod.rs: the relconn actors of the two endpoints of a        *)
(* stream in SteadyState.  A message transmitted stays on the wire: it may *)
(* be delivered late, again, after later ones, or never.  Only the         *)
(* endpoints in Writers have an application that writes.  The k-th byte a  *)
(* writer accepts is the number k.                                         *)
(***************************************************************************)
Ends == {"a", "b"}
Peer(e) == IF e = "a" THEN "b" ELSE "a"
Writers == {"a"}

Steady(e) == conn_state[e] = "SteadyState"

\* None of the futures ahead of new_pkt in the race is ready.
Quiet(cv, cwnd) ==
    /\ ~RtoReady(cv, stream_now)
    /\ ~RetransmitReady(cv, cwnd)
    /\ ~AckTimerReady(cv, stream_now)

\* The end of process_one and the actor's next turn: the assertions on
\* lost_count, and on an error the Reset state, which transmits Rst.
Apply(e, r, evt) ==
    LET panic == r.panic \/ ~LostCountAgrees(r.cv)
        bail == r.err /\ ~panic
    IN /\ conn_vars' = [conn_vars EXCEPT ![e] = r.cv]
       /\ conn_state' = [conn_state EXCEPT ![e] =
                            IF panic THEN "Panicked" ELSE IF bail THEN "Reset" ELSE @]
       /\ wire' = [wire EXCEPT ![Peer(e)] =
                      @ \cup r.sent \cup (IF bail THEN {Rst} ELSE {})]
       /\ send_read' = [send_read EXCEPT ![e] = @ \o r.out]
       /\ last_evt' = evt
       /\ UNCHANGED << recv_write, writer_closed, accepted, stream_now >>

EvtRto(e) ==
    /\ Steady(e)
    /\ RtoReady(conn_vars[e], stream_now)
    /\ LET rto_seqno == Inflight_first_rto(conn_vars[e].inflight).val.seqno
       IN Apply(e, process_Rto(conn_vars[e], rto_seqno),
                [end |-> e, evt |-> "Rto", seqno |-> rto_seqno])

EvtRetransmit(e) ==
    /\ Steady(e)
    /\ ~RtoReady(conn_vars[e], stream_now)
    /\ \E cwnd \in Cwnds, rto \in Rtos :
          /\ RetransmitReady(conn_vars[e], cwnd)
          /\ LET first_retrans == SetMin(conn_vars[e].lost_seqnos)
             IN Apply(e, process_Retransmit(conn_vars[e], first_retrans, stream_now, rto),
                      [end |-> e, evt |-> "Retransmit", seqno |-> first_retrans,
                       cwnd |-> cwnd])

EvtAckTimer(e) ==
    /\ Steady(e)
    /\ ~RtoReady(conn_vars[e], stream_now)
    /\ AckTimerReady(conn_vars[e], stream_now)
    /\ \E cwnd \in Cwnds :
          /\ ~RetransmitReady(conn_vars[e], cwnd)
          /\ Apply(e, process_AckTimer(conn_vars[e]),
                   [end |-> e, evt |-> "AckTimer", seqno |-> conn_vars[e].lowest_unseen])

\* final_timeout: 600 s in which no other future of the race became ready.
EvtFinalTimeout(e) ==
    /\ Steady(e)
    /\ ~Inflight_first_rto(conn_vars[e].inflight).some
    /\ ~conn_vars[e].delayed_ack_timer.some
    /\ \E cwnd \in Cwnds :
          /\ Quiet(conn_vars[e], cwnd)
          /\ Apply(e, Outcome(conn_vars[e], {}, << >>, TRUE, FALSE),
                   [end |-> e, evt |-> "FinalTimeout", seqno |-> 0])

EvtNewPktRst(e) ==
    /\ Steady(e)
    /\ Rst \in wire[e]
    /\ \E cwnd \in Cwnds :
          /\ Quiet(conn_vars[e], cwnd)
          /\ Apply(e, Outcome(conn_vars[e], {}, << >>, TRUE, FALSE),
                   [end |-> e, evt |-> "Rst", seqno |-> 0])

EvtNewPktDataAck(e) ==
    /\ Steady(e)
    /\ \E m \in wire[e], cwnd \in Cwnds, rtt_var \in RttVars :
          /\ m.kind = "DataAck"
          /\ Quiet(conn_vars[e], cwnd)
          /\ Apply(e, process_DataAck(conn_vars[e], m.seqno, m.payload, stream_now, rtt_var),
                   [end |-> e, evt |-> "DataAck", seqno |-> m.seqno])

EvtNewPktData(e) ==
    /\ Steady(e)
    /\ \E m \in wire[e], cwnd \in Cwnds :
          /\ m.kind = "Data"
          /\ Quiet(conn_vars[e], cwnd)
          /\ LET r == process_Data(conn_vars[e], m.seqno, m.payload, stream_now)
             IN Apply(e, r, [end |-> e, evt |-> "Data", seqno |-> m.seqno,
                             wrote |-> Len(r.out)])

\* new_write reads the next fragment from the writer's pipe; the fragment
\* stays in write_fragments if another future wins the race meanwhile.
PollNewWrite(e) ==
    /\ Steady(e)
    /\ conn_vars[e].write_fragments = << >>
    /\ recv_write[e] # << >>
    /\ \E cwnd \in Cwnds :
          /\ Quiet(conn_vars[e], cwnd)
          /\ can_write_new(conn_vars[e], cwnd)
    /\ LET n == Min(MSS, Len(recv_write[e]))
       IN /\ conn_vars' = [conn_vars EXCEPT ![e].write_fragments =
                              << SubSeq(recv_write[e], 1, n) >>]
          /\ recv_write' = [recv_write EXCEPT ![e] =
                              SubSeq(recv_write[e], n + 1, Len(recv_write[e]))]
    /\ UNCHANGED << conn_state, writer_closed, accepted, send_read, wire,
                    stream_now, last_evt >>

EvtNewWrite(e) ==
    /\ Steady(e)
    /\ conn_vars[e].write_fragments # << >>
    /\ \E cwnd \in Cwnds, rto \in Rtos :
          /\ Quiet(conn_vars[e], cwnd)
          /\ can_write_new(conn_vars[e], cwnd)
          /\ LET bts == Head(conn_vars[e].write_fragments)
                 popped == [conn_vars[e] EXCEPT !.write_fragments = Tail(@)]
             IN Apply(e, process_NewWrite(popped, bts, stream_now, rto),
                      [end |-> e, evt |-> "NewWrite", seqno |-> popped.next_free_seqno,
                       cwnd |-> cwnd])

EvtClosing(e) ==
    /\ Steady(e)
    /\ conn_vars[e].write_fragments = << >>
    /\ recv_write[e] = << >>
    /\ writer_closed[e]
    /\ \E cwnd \in Cwnds :
          /\ Quiet(conn_vars[e], cwnd)
          /\ can_write_new(conn_vars[e], cwnd)
          /\ Apply(e, process_Closing(conn_vars[e]),
                   [end |-> e, evt |-> "Closing", seqno |-> 0])

\* The application writes one more byte into the writer's pipe.
AppWrite(e) ==
    /\ e \in Writers
    /\ conn_state[e] # "Panicked"
    /\ ~writer_closed[e]
    /\ Len(accepted[e]) < MaxSeqno
    /\ LET byte == Len(accepted[e]) + 1
       IN /\ accepted' = [accepted EXCEPT ![e] = Append(@, byte)]
          /\ recv_write' = [recv_write EXCEPT ![e] = Append(@, byte)]
    /\ UNCHANGED << conn_state, conn_vars, writer_closed, send_read, wire,
                    stream_now, last_evt >>

\* RelConn::shutdown, or the writer is dropped.
AppClose(e) ==
    /\ ~writer_closed[e]
    /\ writer_closed' = [writer_closed EXCEPT ![e] = TRUE]
    /\ UNCHANGED << conn_state, conn_vars, recv_write, accepted, send_read, wire,
                    stream_now, last_evt >>

TickStream ==
    /\ stream_now < MaxStreamTicks
    /\ stream_now' = stream_now + 1
    /\ UNCHANGED << conn_state, conn_vars, recv_write, writer_closed, accepted,
                    send_read, wire, last_evt >>

InitStream ==
    /\ conn_state = [e \in Ends |-> "SteadyState"]
    /\ conn_vars = [e \in Ends |-> ConnVars_default]
    /\ recv_write = [e \in Ends |-> << >>]
    /\ writer_closed = [e \in Ends |-> FALSE]
    /\ accepted = [e \in Ends |-> << >>]
    /\ send_read = [e \in Ends |-> << >>]
    /\ wire = [e \in Ends |-> {}]
    /\ stream_now = 0
    /\ last_evt = [evt |-> "none"]

NextStream ==
    \/ \E e \in Ends : EvtRto(e) /\ UNCHANGED << recvVars, replayVars, tableVars, recentVars, inflightVars, clientVars, muxVars, connVars, moreVars >>
    \/ \E e \in Ends : EvtRetransmit(e) /\ UNCHANGED << recvVars, replayVars, tableVars, recentVars, inflightVars, clientVars, muxVars, connVars, moreVars >>
    \/ \E e \in Ends : EvtAckTimer(e) /\ UNCHANGED << recvVars, replayVars, tableVars, recentVars, inflightVars, clientVars, muxVars, connVars, moreVars >>
    \/ \E e \in Ends : EvtFinalTimeout(e) /\ UNCHANGED << recvVars, replayVars, tableVars, recentVars, inflightVars, clientVars, muxVars, connVars, moreVars >>
    \/ \E e \in Ends : EvtNewPktRst(e) /\ UNCHANGED << recvVars, replayVars, tableVars, recentVars, inflightVars, clientVars, muxVars, connVars, moreVars >>
    \/ \E e \in Ends : EvtNewPktDataAck(e) /\ UNCHANGED << recvVars, replayVars, tableVars, recentVars, inflightVars, clientVars, muxVars, connVars, moreVars >>
    \/ \E e \in Ends : EvtNewPktData(e) /\ UNCHANGED << recvVars, replayVars, tableVars, recentVars, inflightVars, clientVars, muxVars, connVars, moreVars >>
    \/ \E e \in Ends : PollNewWrite(e) /\ UNCHANGED << recvVars, replayVars, tableVars, recentVars, inflightVars, clientVars, muxVars, connVars, moreVars >>
    \/ \E e \in Ends : EvtNewWrite(e) /\ UNCHANGED << recvVars, replayVars, tableVars, recentVars, inflightVars, clientVars, muxVars, connVars, moreVars >>
    \/ \E e \in Ends : EvtClosing(e) /\ UNCHANGED << recvVars, replayVars, tableVars, recentVars, inflightVars, clientVars, muxVars, connVars, moreVars >>
    \/ \E e \in Ends : AppWrite(e) /\ UNCHANGED << recvVars, replayVars, tableVars, recentVars, inflightVars, clientVars, muxVars, connVars, moreVars >>
    \/ \E e \in Ends : AppClose(e) /\ UNCHANGED << recvVars, replayVars, tableVars, recentVars, inflightVars, clientVars, muxVars, connVars, moreVars >>
    \/ TickStream /\ UNCHANGED << recvVars, replayVars, tableVars, recentVars, inflightVars, clientVars, muxVars, connVars, moreVars >>

(***************************************************************************)
(* A stream whose sender has a window's worth of segments in flight:       *)
(* endpoint "a" has sent CwndMin one-byte segments at time 0 and its       *)
(* writer has accepted ExtraWrites more bytes, the first already read into *)
(* write_fragments.  Endpoint "b" has received segment 1 alone and has     *)
(* acknowledged it when its delayed-ACK timer expired; from there on only  *)
(* the actor of "a" is scheduled.                                          *)
(***************************************************************************)
RECURSIVE Written(_, _)
\* ConnVars after n NewWrite events at time 0, segment k carrying byte k + 1
Written(cv, n) ==
    IF n = 0 THEN cv
    ELSE LET prev == Written(cv, n - 1)
         IN process_NewWrite(prev, << prev.next_free_seqno + 1 >>, 0, MaxRto).cv

\* the peer after the Data event for segment 1 and the AckTimer event
PeerAcked == process_AckTimer(process_Data(ConnVars_default, 1, << 2 >>, 0).cv)

InitCwnd ==
    /\ conn_state = [e \in Ends |-> "SteadyState"]
    /\ conn_vars = [e \in Ends |->
          IF e = "a"
          THEN [Written(ConnVars_default, CwndMin) EXCEPT
                   !.write_fragments = << << CwndMin + 1 >> >>]
          ELSE PeerAcked.cv]
    /\ recv_write = [e \in Ends |->
          IF e = "a" THEN [k \in 1..(ExtraWrites - 1) |-> CwndMin + 1 + k] ELSE << >>]
    /\ writer_closed = [e \in Ends |-> FALSE]
    /\ accepted = [e \in Ends |->
          IF e = "a" THEN [k \in 1..(CwndMin + ExtraWrites) |-> k] ELSE << >>]
    /\ send_read = [e \in Ends |-> << >>]
    /\ wire = [e \in Ends |->
          IF e = "b" THEN { Rel("Data", k, << k + 1 >>) : k \in 0..(CwndMin - 1) }
          ELSE PeerAcked.sent]
    /\ stream_now = AckDelay
    /\ last_evt = [evt |-> "none"]

NextCwnd ==
    \/ EvtRto("a") /\ UNCHANGED << recvVars, replayVars, tableVars, recentVars, inflightVars, clientVars, muxVars, connVars, moreVars >>
    \/ EvtRetransmit("a") /\ UNCHANGED << recvVars, replayVars, tableVars, recentVars, inflightVars, clientVars, muxVars, connVars, moreVars >>
    \/ EvtNewPktDataAck("a") /\ UNCHANGED << recvVars, replayVars, tableVars, recentVars, inflightVars, clientVars, muxVars, connVars, moreVars >>
    \/ PollNewWrite("a") /\ UNCHANGED << recvVars, replayVars, tableVars, recentVars, inflightVars, clientVars, muxVars, connVars, moreVars >>
    \/ EvtNewWrite("a") /\ UNCHANGED << recvVars, replayVars, tableVars, recentVars, inflightVars, clientVars, muxVars, connVars, moreVars >>
    \/ TickStream /\ UNCHANGED << recvVars, replayVars, tableVars, recentVars, inflightVars, clientVars, muxVars, connVars, moreVars >>

(***************************************************************************)
(* A stream whose receiver has a nearly full batch of pending ACKs.        *)
(* Endpoint "a" has sent PendingAcks + ExtraData one-byte segments; "b"    *)
(* wrote one segment of its own at time 0 and has just taken the first     *)
(* PendingAcks segments of "a", in order, at time AckDelay + 1, so that    *)
(* its delayed-ACK timer is armed and none of them is acknowledged yet.    *)
(* The network still holds the later segments and a second copy of         *)
(* segment 0.  From there on only the actor of "b" is scheduled.           *)
(***************************************************************************)
PendingAcks == ACK_BATCH - 2

RECURSIVE ReceivedData(_, _)
\* ConnVars after the Data events for segments 0..n-1 at time AckDelay + 1
ReceivedData(cv, n) ==
    IF n = 0 THEN cv
    ELSE process_Data(ReceivedData(cv, n - 1), n - 1, << n >>, AckDelay + 1).cv

InitAck ==
    /\ conn_state = [e \in Ends |-> "SteadyState"]
    /\ conn_vars = [e \in Ends |->
          IF e = "a" THEN Written(ConnVars_default, PendingAcks + ExtraData)
          ELSE ReceivedData(Written(ConnVars_default, 1), PendingAcks)]
    /\ recv_write = [e \in Ends |-> << >>]
    /\ writer_closed = [e \in Ends |-> FALSE]
    /\ accepted = [e \in Ends |->
          IF e = "a" THEN [k \in 1..(PendingAcks + ExtraData) |-> k] ELSE << 1 >>]
    /\ send_read = [e \in Ends |->
          IF e = "b" THEN [k \in 1..PendingAcks |-> k] ELSE << >>]
    /\ wire = [e \in Ends |->
          IF e = "b"
          THEN { Rel("Data", k, << k + 1 >>) :
                    k \in {0} \cup (PendingAcks..(PendingAcks + ExtraData - 1)) }
          ELSE { Rel("Data", 0, << 1 >>) }]
    /\ stream_now = AckDelay + 1
    /\ last_evt = [evt |-> "none"]

AckRto == EvtRto("b") /\ UNCHANGED << recvVars, replayVars, tableVars, recentVars, inflightVars, clientVars, muxVars, connVars, moreVars >>
AckRetransmit == EvtRetransmit("b") /\ UNCHANGED << recvVars, replayVars, tableVars, recentVars, inflightVars, clientVars, muxVars, connVars, moreVars >>
AckAckTimer == EvtAckTimer("b") /\ UNCHANGED << recvVars, replayVars, tableVars, recentVars, inflightVars, clientVars, muxVars, connVars, moreVars >>
AckData == EvtNewPktData("b") /\ UNCHANGED << recvVars, replayVars, tableVars, recentVars, inflightVars, clientVars, muxVars, connVars, moreVars >>
AckTick == TickStream /\ UNCHANGED << recvVars, replayVars, tableVars, recentVars, inflightVars, clientVars, muxVars, connVars, moreVars >>

NextAck == AckRto \/ AckRetransmit \/ AckAckTimer \/ AckData \/ AckTick

\* The actor's task is scheduled whenever one of its futures is ready, and
\* time passes.
FairAck ==
    /\ WF_vars(AckRto) /\ WF_vars(AckRetransmit) /\ WF_vars(AckAckTimer)
    /\ WF_vars(AckTick)

(***************************************************************************)
(* client/inner.rs: the uploader task of init_session.                     *)
(* uniform_pvalue is the lower tail of Binomial(total, 1/len) at the       *)
(* smallest count.  The source computes it in f64; here it is computed in  *)
(* units of 1/PScale twice, rounding every step down and rounding it up,   *)
(* which encloses the exact value.  An upload that finds the reset timer   *)
(* not expired changes nothing of this state.                              *)
(***************************************************************************)
Shards == 0..3
CountValues == {0, 2, 28, 30, 32}
PScale == 10^8

CeilDiv(x, n) == (x + n - 1) \div n

RECURSIVE SumSeq(_)
SumSeq(q) == IF q = << >> THEN 0 ELSE Head(q) + SumSeq(Tail(q))

\* One more trial: d[k + 1] is the probability of k successes.
BinomialTrial(d, n, up) ==
    [k \in 1..Len(d) |->
        LET x == d[k] * (n - 1) + (IF k > 1 THEN d[k - 1] ELSE 0)
        IN IF up THEN CeilDiv(x, n) ELSE x \div n]

\* Len(d) makes TLC compute a row before the next trial starts.
RECURSIVE BinomialTrials(_, _, _, _)
BinomialTrials(d, trials, n, up) ==
    IF trials = 0 \/ Len(d) = 0 THEN d
    ELSE BinomialTrials(BinomialTrial(d, n, up), trials - 1, n, up)

\* Binomial::new(total, 1/n).distribution(x) in units of 1/PScale
Binomial_distribution(total, n, x, up) ==
    IF x >= total THEN PScale
    ELSE LET start == [k \in 1..(x + 1) |-> IF k = 1 THEN PScale ELSE 0]
         IN Min(PScale, SumSeq(BinomialTrials(start, total, n, up)))

\* vals is a function over the shard indices
uniform_pvalue(vals) ==
    IF DOMAIN vals = {} THEN [lo |-> 0, hi |-> 0]
    ELSE LET total_count == SumSeq([i \in 1..Cardinality(DOMAIN vals) |->
                                       vals[SetMin(DOMAIN vals) + i - 1]])
             min == SetMin({ vals[i] : i \in DOMAIN vals })
             n == Cardinality(DOMAIN vals)
         IN [lo |-> Binomial_distribution(total_count, n, min, FALSE),
             hi |-> Binomial_distribution(total_count, n, min, TRUE)]

\* The outcomes of p_value < 0.01.
PValueBelow(p) ==
    { b \in BOOLEAN : (b /\ p.lo < PScale \div 100) \/ (~b /\ p.hi >= PScale \div 100) }

ClientWorker_start(shard_id, id) == [shard_id |-> shard_id, received_count |-> 0, id |-> id]

received_counts(ws) == [i \in DOMAIN ws |-> ws[i].received_count]

\* min_by_key: the first of the workers with the smallest key
max_by_key(counts) ==
    SetMax({ i \in DOMAIN counts : \A j \in DOMAIN counts : counts[i] >= counts[j] })

min_by_key(counts) ==
    SetMin({ i \in DOMAIN counts : \A j \in DOMAIN counts : counts[i] <= counts[j] })

\* A worker's backhaul task receives packets: fetch_add on its counter.
Receive(w) ==
    /\ \E c \in CountValues :
          /\ c > workers[w].received_count
          /\ workers' = [workers EXCEPT ![w].received_count = c]
    /\ UNCHANGED << fired_workers, reset_elapsed, just_respawned, started >>

TickClient ==
    /\ reset_elapsed <= ResetTicks
    /\ reset_elapsed' = reset_elapsed + 1
    /\ UNCHANGED << workers, fired_workers, just_respawned, started >>

\* An upload after which the reset timer is found expired, just after a
\* replacement: every counter is reset.
ExpiryRebaseline ==
    /\ reset_elapsed > ResetTicks
    /\ just_respawned
    /\ reset_elapsed' = 0
    /\ workers' = [i \in DOMAIN workers |-> [workers[i] EXCEPT !.received_count = 0]]
    /\ just_respawned' = FALSE
    /\ UNCHANGED << fired_workers, started >>

\* An upload after which the reset timer is found expired, otherwise.  The
\* counters are read for the p-value and read again to find the worst
\* worker; a worker may receive in between.
ExpiryCheck ==
    /\ reset_elapsed > ResetTicks
    /\ started < Cardinality(Shards) + MaxRespawns
    /\ ~just_respawned
    /\ reset_elapsed' = 0
    /\ LET worker_packet_count == received_counts(workers)
           p_value == uniform_pvalue(worker_packet_count)
       IN \E below \in PValueBelow(p_value) :
             IF below
             THEN \E later \in [Shards -> CountValues] :
                     /\ \A i \in Shards : later[i] >= worker_packet_count[i]
                     /\ Cardinality({ i \in Shards : later[i] # worker_packet_count[i] }) <= 1
                     /\ LET worst_worker_id == min_by_key(later)
                            new_worker == ClientWorker_start(worst_worker_id, started)
                            pushed == Append(fired_workers, workers[worst_worker_id].id)
                        IN /\ workers' = [i \in Shards |->
                                            IF i = worst_worker_id THEN new_worker
                                            ELSE [workers[i] EXCEPT !.received_count = later[i]]]
                           /\ fired_workers' = IF Len(pushed) > Cardinality(Shards)
                                               THEN Tail(pushed) ELSE pushed
                           /\ started' = started + 1
                           /\ just_respawned' = TRUE
             ELSE UNCHANGED << workers, fired_workers, started, just_respawned >>

InitClient ==
    /\ workers = [shard_id \in Shards |-> ClientWorker_start(shard_id, shard_id)]
    /\ fired_workers = << >>
    /\ reset_elapsed = 0
    /\ just_respawned = FALSE
    /\ started = Cardinality(Shards)

NextClient ==
    \/ \E w \in Shards : Receive(w) /\ UNCHANGED << recvVars, replayVars, tableVars, recentVars, inflightVars, streamVars, muxVars, connVars, moreVars >>
    \/ TickClient /\ UNCHANGED << recvVars, replayVars, tableVars, recentVars, inflightVars, streamVars, muxVars, connVars, moreVars >>
    \/ ExpiryRebaseline /\ UNCHANGED << recvVars, replayVars, tableVars, recentVars, inflightVars, streamVars, muxVars, connVars, moreVars >>
    \/ ExpiryCheck /\ UNCHANGED << recvVars, replayVars, tableVars, recentVars, inflightVars, streamVars, muxVars, connVars, moreVars >>

(***************************************************************************)
(* The multiplex actor (mux/multiplex_actor.rs) and the Multiplex handle   *)
(* (mux/mod.rs).  The relconn actors behind the stream table appear by     *)
(* what they do to the multiplex: they take frames from their handle's     *)
(* queue, transmit into glob_send, signal a finished open and are reaped.  *)
(***************************************************************************)
Sids == 0..MaxSid
OtherFull == U16Count - Cardinality(Sids)
Callers == 1..MaxCallers
Additional == {None, Some(<< 7 >>)}
UrelBodies == {<< 1 >>}

Message_Empty == [variant |-> "Empty"]
Message_Urel(body) == [variant |-> "Urel", body |-> body]
Message_Rel(kind, stream_id, seqno, payload) ==
    [variant |-> "Rel", kind |-> kind, stream_id |-> stream_id, seqno |-> seqno,
     payload |-> payload]

\* bincode::serialize_into of a Message, and safe_deserialize of session bytes
Message_serialize(msg) == << "bincode", msg >>
Message_deserialize_lenient(bytes) ==
    IF bytes[1] = "bincode" THEN Some(bytes[2]) ELSE Some(Message_Empty)
Message_deserialize(bytes) == IF bytes[1] = "bincode" THEN Some(bytes[2]) ELSE None

\* the Rel kinds taken for the frames that arrive and for those the streams transmit
InKinds == {"Syn", "Data", "Rst"}
OutKinds == {"Data", "Rst"}

\* what recv_bytes may return: the peer's messages, or anything else
InBytes ==
    { Message_serialize(Message_Rel(k, s, 0, << >>)) : k \in InKinds, s \in Sids }
    \cup { Message_serialize(Message_Urel(b)) : b \in UrelBodies }
    \cup { Message_serialize(Message_Empty), << "noise" >> }

\* smol::channel try_send on a bounded channel
try_send(chan, cap, item) == IF Len(chan) >= cap THEN chan ELSE Append(chan, item)

ConnTable_len == Cardinality({ s \in Sids : sid_to_stream[s].some }) + other_streams

\* ConnTable::find_id: the ids the loop can end with; none when the table is full
ConnTable_find_id ==
    IF ConnTable_len >= MaxStreams THEN {None}
    ELSE { Some(possible_id) : possible_id \in { s \in Sids : ~sid_to_stream[s].some } }

\* RelConn::new: the back handle kept in the table
RelConnBack_new(state, opener) ==
    [state |-> state, send_wire_read |-> << >>, opener |-> opener, died |-> None]

\* the reap_dead closure: a task that sleeps 30 s and then sends the id
reap_dead(id) == [id |-> id, at |-> mux_now + ReapSecs]

\* the tasks spawned when the handle of table entry id is dropped: a
\* running actor is cancelled and its guard calls reap_dead
DropHandle(id) ==
    IF sid_to_stream[id].some /\ ~sid_to_stream[id].val.died.some
    THEN {reap_dead(id)} ELSE {}

\* session.send_bytes(bytes) on the current session
\* the number of send_bytes calls so far
Sends == IF last_sent.some THEN last_sent.val.no ELSE 0

session_send_bytes(bytes) ==
    last_sent' = Some([sess |-> session, bytes |-> bytes, no |-> Sends + 1])

MuxInput == mux_inputs < MaxMuxInputs /\ mux_inputs' = mux_inputs + 1

\* ---- the Multiplex handle

send_urel(msg) ==
    /\ MuxInput
    /\ Len(urel_send) < UrelSendCap
    /\ urel_send' = Append(urel_send, msg)
    /\ UNCHANGED << session, recv_session, next_sess, urel_recv, urel_got, urel_arrived,
                    conn_open, open_tasks, open_calls, sid_to_stream, other_streams, glob,
                    dead_recv, conn_accept, last_sent, swapped, open_no_id, reapers,
                    mux_now >>

try_recv_urel ==
    /\ IF urel_recv = << >>
       THEN UNCHANGED << urel_recv, urel_got >>
       ELSE urel_got' = urel_got \cup {Head(urel_recv)} /\ urel_recv' = Tail(urel_recv)
    /\ UNCHANGED << session, recv_session, next_sess, urel_send, urel_arrived,
                    conn_open, open_tasks, open_calls, sid_to_stream, other_streams, glob,
                    dead_recv, conn_accept, last_sent, swapped, mux_inputs, open_no_id, reapers,
                    mux_now >>

replace_session ==
    /\ MuxInput
    /\ next_sess <= MaxSessions
    /\ recv_session' = Append(recv_session, next_sess)
    /\ next_sess' = next_sess + 1
    /\ UNCHANGED << session, urel_send, urel_recv, urel_got, urel_arrived,
                    conn_open, open_tasks, open_calls, sid_to_stream, other_streams, glob,
                    dead_recv, conn_accept, last_sent, swapped, open_no_id, reapers,
                    mux_now >>

\* open_conn up to its wait for the result
open_conn(c, additional) ==
    /\ MuxInput
    /\ open_calls[c] = "Idle"
    /\ conn_open' = Append(conn_open, [additional |-> additional, result_chan |-> c])
    /\ open_calls' = [open_calls EXCEPT ![c] = "Waiting"]
    /\ UNCHANGED << session, recv_session, next_sess, urel_send, urel_recv, urel_got,
                    urel_arrived, open_tasks, sid_to_stream, other_streams, glob,
                    dead_recv, conn_accept, last_sent, swapped, open_no_id, reapers,
                    mux_now >>

\* ---- the events of the actor's loop, in the order the loop prefers them

EvtConnOpen ==
    /\ conn_open # << >>
    /\ conn_open' = Tail(conn_open)
    /\ open_tasks' = open_tasks \cup
          {[additional |-> Head(conn_open).additional,
            result_chan |-> Head(conn_open).result_chan, found |-> None]}
    /\ UNCHANGED << session, recv_session, next_sess, urel_send, urel_recv, urel_got,
                    urel_arrived, open_calls, sid_to_stream, other_streams, glob,
                    dead_recv, conn_accept, last_sent, swapped, mux_inputs, open_no_id, reapers,
                    mux_now >>

\* The task spawned for a ConnOpen event runs beside the actor and beside
\* the other tasks: its find_id and its set_stream are separate accesses to
\* the shared table.  When find_id finds no id the task returns and drops
\* result_chan: open_conn's recv fails and the call goes on to wait on a
\* future that is never ready.
ConnOpenFind(t) ==
    /\ t \in open_tasks
    /\ ~t.found.some
    /\ \E found \in ConnTable_find_id :
          IF found.some
          THEN /\ open_tasks' = (open_tasks \ {t}) \cup {[t EXCEPT !.found = found]}
               /\ UNCHANGED << open_calls, open_no_id >>
          ELSE /\ open_tasks' = open_tasks \ {t}
               /\ open_calls' = [open_calls EXCEPT ![t.result_chan] = "Pending"]
               /\ open_no_id' = open_no_id \cup {t.result_chan}
    /\ UNCHANGED << session, recv_session, next_sess, urel_send, urel_recv, urel_got,
                    urel_arrived, conn_open, sid_to_stream, other_streams, glob, dead_recv,
                    reapers, mux_now, conn_accept, last_sent, swapped, mux_inputs >>

\* the rest of the task: RelConn::new, set_stream and the first Syn
ConnOpenSet(t) ==
    /\ t \in open_tasks
    /\ t.found.some
    /\ open_tasks' = open_tasks \ {t}
    /\ LET stream_id == t.found.val
       IN /\ sid_to_stream' = [sid_to_stream EXCEPT ![stream_id] =
                                  Some(RelConnBack_new("SynSent", t.result_chan))]
          /\ reapers' = reapers \cup DropHandle(stream_id)
          /\ glob' = try_send(glob, GlobCap,
                              Message_Rel("Syn", stream_id, 0,
                                          IF t.additional.some THEN t.additional.val
                                          ELSE << >>))
    /\ UNCHANGED << session, recv_session, next_sess, urel_send, urel_recv, urel_got,
                    urel_arrived, conn_open, open_calls, open_no_id, other_streams,
                    dead_recv, mux_now, conn_accept, last_sent, swapped, mux_inputs >>

\* the Syn handler accepting a stream for every Syn, known id or not
RecvMsg_Syn_accept_again(msg) ==
    /\ sid_to_stream' = [sid_to_stream EXCEPT ![msg.stream_id] =
                            Some(RelConnBack_new("SynReceived", 0))]
    /\ conn_accept' = try_send(conn_accept, ConnAcceptCap, msg.stream_id)
    /\ UNCHANGED last_sent

RecvMsg_Syn(msg) ==
    IF sid_to_stream[msg.stream_id].some
    THEN /\ session_send_bytes(Message_serialize(Message_Rel("SynAck", msg.stream_id, 0, << >>)))
         /\ UNCHANGED << sid_to_stream, conn_accept >>
    ELSE /\ sid_to_stream' = [sid_to_stream EXCEPT ![msg.stream_id] =
                                 Some(RelConnBack_new("SynReceived", 0))]
         /\ conn_accept' = try_send(conn_accept, ConnAcceptCap, msg.stream_id)
         /\ UNCHANGED last_sent

\* the handler of a non-Syn Rel frame answering every unknown id with Rst
RecvMsg_Rel_rst_always(msg) ==
    /\ IF sid_to_stream[msg.stream_id].some
       THEN /\ sid_to_stream' = [sid_to_stream EXCEPT ![msg.stream_id].val.send_wire_read =
                                    try_send(@, WireReadCap, msg)]
            /\ UNCHANGED last_sent
       ELSE /\ session_send_bytes(Message_serialize(Message_Rel("Rst", msg.stream_id, 0, << >>)))
            /\ UNCHANGED sid_to_stream
    /\ UNCHANGED conn_accept

RecvMsg_Rel(msg) ==
    /\ IF sid_to_stream[msg.stream_id].some
       THEN /\ sid_to_stream' = [sid_to_stream EXCEPT ![msg.stream_id].val.send_wire_read =
                                    try_send(@, WireReadCap, msg)]
            /\ UNCHANGED last_sent
       ELSE /\ IF msg.kind # "Rst"
               THEN session_send_bytes(Message_serialize(Message_Rel("Rst", msg.stream_id, 0, << >>)))
               ELSE UNCHANGED last_sent
            /\ UNCHANGED sid_to_stream
    /\ UNCHANGED conn_accept

EvtRecvMsg(bytes) ==
    /\ MuxInput
    /\ conn_open = << >>
    /\ LET msg == Message_deserialize(bytes)
       IN IF ~msg.some
          THEN /\ session_send_bytes(Message_serialize(Message_Empty))
               /\ UNCHANGED << sid_to_stream, conn_accept, urel_arrived >>
          ELSE CASE msg.val.variant = "Urel" ->
                      /\ urel_arrived' = urel_arrived \cup {msg.val.body}
                      /\ UNCHANGED << sid_to_stream, conn_accept, last_sent >>
                 [] msg.val.variant = "Rel" /\ msg.val.kind = "Syn" ->
                      RecvMsg_Syn(msg.val) /\ UNCHANGED urel_arrived
                 [] msg.val.variant = "Rel" /\ msg.val.kind # "Syn" ->
                      RecvMsg_Rel(msg.val) /\ UNCHANGED urel_arrived
                 [] msg.val.variant = "Empty" ->
                      UNCHANGED << sid_to_stream, conn_accept, urel_arrived, last_sent >>
    /\ UNCHANGED << session, recv_session, next_sess, urel_send, urel_recv, urel_got,
                    conn_open, open_tasks, open_calls, other_streams, glob, dead_recv,
                    swapped, open_no_id, reapers,
                    mux_now >>

EvtSendUrel ==
    /\ conn_open = << >>
    /\ urel_send # << >>
    /\ urel_send' = Tail(urel_send)
    /\ session_send_bytes(Message_serialize(Message_Urel(Head(urel_send))))
    /\ UNCHANGED << session, recv_session, next_sess, urel_recv, urel_got, urel_arrived,
                    conn_open, open_tasks, open_calls, sid_to_stream, other_streams, glob,
                    dead_recv, conn_accept, swapped, mux_inputs, open_no_id, reapers,
                    mux_now >>

EvtSendMsg ==
    /\ conn_open = << >> /\ urel_send = << >>
    /\ glob # << >>
    /\ glob' = Tail(glob)
    /\ session_send_bytes(Message_serialize(Head(glob)))
    /\ UNCHANGED << session, recv_session, next_sess, urel_send, urel_recv, urel_got,
                    urel_arrived, conn_open, open_tasks, open_calls, sid_to_stream,
                    other_streams, dead_recv, conn_accept, swapped, mux_inputs, open_no_id, reapers,
                    mux_now >>

EvtSessionReplace_keep ==
    /\ conn_open = << >> /\ urel_send = << >> /\ glob = << >>
    /\ recv_session # << >>
    /\ recv_session' = Tail(recv_session)
    /\ swapped' = [sess |-> Head(recv_session),
                   streams |-> { s \in Sids : sid_to_stream[s].some }]
    /\ UNCHANGED << session, next_sess, urel_send, urel_recv, urel_got, urel_arrived, conn_open,
                    open_tasks, open_calls, sid_to_stream, other_streams, glob, dead_recv,
                    conn_accept, last_sent, mux_inputs, open_no_id, reapers,
                    mux_now >>

EvtSessionReplace ==
    /\ conn_open = << >> /\ urel_send = << >> /\ glob = << >>
    /\ recv_session # << >>
    /\ recv_session' = Tail(recv_session)
    /\ session' = Head(recv_session)
    /\ swapped' = [sess |-> Head(recv_session),
                   streams |-> { s \in Sids : sid_to_stream[s].some }]
    /\ UNCHANGED << next_sess, urel_send, urel_recv, urel_got, urel_arrived, conn_open,
                    open_tasks, open_calls, sid_to_stream, other_streams, glob, dead_recv,
                    conn_accept, last_sent, mux_inputs, open_no_id, reapers,
                    mux_now >>

EvtDead ==
    /\ conn_open = << >> /\ urel_send = << >> /\ glob = << >> /\ recv_session = << >>
    /\ dead_recv # << >>
    /\ dead_recv' = Tail(dead_recv)
    /\ sid_to_stream' = [sid_to_stream EXCEPT ![Head(dead_recv)] = None]
    /\ reapers' = reapers \cup DropHandle(Head(dead_recv))
    /\ UNCHANGED << session, recv_session, next_sess, urel_send, urel_recv, urel_got,
                    urel_arrived, conn_open, open_tasks, open_calls, other_streams, glob,
                    mux_now, conn_accept, last_sent, swapped, mux_inputs, open_no_id >>

\* ---- the relconn actors, seen from the multiplex

\* recv_wire_read.recv() in a relconn actor
StreamRecv(s) ==
    /\ sid_to_stream[s].some
    /\ ~sid_to_stream[s].val.died.some
    /\ sid_to_stream[s].val.send_wire_read # << >>
    /\ sid_to_stream' = [sid_to_stream EXCEPT ![s].val.send_wire_read = Tail(@)]
    /\ UNCHANGED << session, recv_session, next_sess, urel_send, urel_recv, urel_got,
                    urel_arrived, conn_open, open_tasks, open_calls, other_streams, glob,
                    dead_recv, reapers, mux_now, conn_accept, last_sent, swapped,
                    mux_inputs, open_no_id >>

\* the transmit closure of a relconn actor
StreamTransmit(s, kind) ==
    /\ MuxInput
    /\ sid_to_stream[s].some
    /\ ~sid_to_stream[s].val.died.some
    /\ glob' = try_send(glob, GlobCap, Message_Rel(kind, s, 0, << >>))
    /\ UNCHANGED << session, recv_session, next_sess, urel_send, urel_recv, urel_got,
                    urel_arrived, conn_open, open_tasks, open_calls, sid_to_stream,
                    other_streams, dead_recv, reapers, mux_now, conn_accept, last_sent,
                    swapped, open_no_id >>

\* The relconn actor of table entry s returns (Syn timeout, end of Reset,
\* close): its guard runs the dropper, which is reap_dead(s).
StreamExit(s) ==
    /\ MuxInput
    /\ sid_to_stream[s].some
    /\ ~sid_to_stream[s].val.died.some
    /\ sid_to_stream' = [sid_to_stream EXCEPT ![s].val.state = "Exited",
                                              ![s].val.died = Some(mux_now)]
    /\ reapers' = reapers \cup {reap_dead(s)}
    /\ UNCHANGED << session, recv_session, next_sess, urel_send, urel_recv, urel_got,
                    urel_arrived, conn_open, open_tasks, open_calls, other_streams, glob,
                    dead_recv, mux_now, conn_accept, last_sent, swapped, open_no_id >>

\* The task that waits for the SynSent actor's signal: on the signal it hands
\* the stream to open_conn; when the actor ended without a signal it drops
\* result_chan.
OpenResult(s, signalled) ==
    /\ sid_to_stream[s].some
    /\ sid_to_stream[s].val.opener \in Callers
    /\ open_calls[sid_to_stream[s].val.opener] = "Waiting"
    /\ IF signalled
       THEN /\ sid_to_stream[s].val.state = "SynSent"
            /\ sid_to_stream' = [sid_to_stream EXCEPT ![s].val.state = "SteadyState"]
            /\ open_calls' = [open_calls EXCEPT ![sid_to_stream[s].val.opener] = "Ok"]
       ELSE /\ sid_to_stream[s].val.state = "Exited"
            /\ open_calls' = [open_calls EXCEPT ![sid_to_stream[s].val.opener] = "Pending"]
            /\ UNCHANGED sid_to_stream
    /\ UNCHANGED << session, recv_session, next_sess, urel_send, urel_recv, urel_got,
                    urel_arrived, conn_open, open_tasks, other_streams, glob,
                    dead_recv, reapers, mux_now, conn_accept, last_sent, swapped,
                    mux_inputs, open_no_id >>

\* a task spawned by reap_dead wakes up and sends its id to the actor
Reap(r) ==
    /\ r \in reapers
    /\ mux_now >= r.at
    /\ reapers' = reapers \ {r}
    /\ dead_recv' = Append(dead_recv, r.id)
    /\ UNCHANGED << session, recv_session, next_sess, urel_send, urel_recv, urel_got,
                    urel_arrived, conn_open, open_tasks, open_calls, sid_to_stream,
                    other_streams, glob, mux_now, conn_accept, last_sent, swapped,
                    mux_inputs, open_no_id >>

\* The clock is read by the reaper tasks alone; it runs while one sleeps.
TickMux ==
    /\ reapers # {}
    /\ mux_now < MaxMuxTicks * MuxTickSecs
    /\ mux_now' = mux_now + MuxTickSecs
    /\ UNCHANGED << session, recv_session, next_sess, urel_send, urel_recv, urel_got,
                    urel_arrived, conn_open, open_tasks, open_calls, sid_to_stream,
                    other_streams, glob, dead_recv, reapers, conn_accept, last_sent,
                    swapped, mux_inputs, open_no_id >>

\* Multiplex::new with a stream table holding others entries with other ids
InitMuxTable(others) ==
    /\ session = 0
    /\ recv_session = << >>
    /\ next_sess = 1
    /\ urel_send = << >>
    /\ urel_recv = << >>
    /\ urel_got = {}
    /\ urel_arrived = {}
    /\ conn_open = << >>
    /\ open_tasks = {}
    /\ open_calls = [c \in Callers |-> "Idle"]
    /\ sid_to_stream = [s \in Sids |-> None]
    /\ other_streams = others
    /\ glob = << >>
    /\ dead_recv = << >>
    /\ reapers = {}
    /\ mux_now = 0
    /\ conn_accept = << >>
    /\ last_sent = None
    /\ swapped = [sess |-> 0, streams |-> {}]
    /\ mux_inputs = 0
    /\ open_no_id = {}

InitMux == \E others \in {0, OtherFull} : InitMuxTable(others)

NextMux ==
    \/ (\E b \in UrelBodies : send_urel(b)) /\ UNCHANGED << recvVars, replayVars, tableVars, recentVars, inflightVars, streamVars, clientVars, connVars, moreVars >>
    \/ (try_recv_urel) /\ UNCHANGED << recvVars, replayVars, tableVars, recentVars, inflightVars, streamVars, clientVars, connVars, moreVars >>
    \/ (replace_session) /\ UNCHANGED << recvVars, replayVars, tableVars, recentVars, inflightVars, streamVars, clientVars, connVars, moreVars >>
    \/ (\E c \in Callers, a \in Additional : open_conn(c, a)) /\ UNCHANGED << recvVars, replayVars, tableVars, recentVars, inflightVars, streamVars, clientVars, connVars, moreVars >>
    \/ (EvtConnOpen) /\ UNCHANGED << recvVars, replayVars, tableVars, recentVars, inflightVars, streamVars, clientVars, connVars, moreVars >>
    \/ (\E t \in open_tasks : ConnOpenFind(t)) /\ UNCHANGED << recvVars, replayVars, tableVars, recentVars, inflightVars, streamVars, clientVars, connVars, moreVars >>
    \/ (\E t \in open_tasks : ConnOpenSet(t)) /\ UNCHANGED << recvVars, replayVars, tableVars, recentVars, inflightVars, streamVars, clientVars, connVars, moreVars >>
    \/ (\E bytes \in InBytes : EvtRecvMsg(bytes)) /\ UNCHANGED << recvVars, replayVars, tableVars, recentVars, inflightVars, streamVars, clientVars, connVars, moreVars >>
    \/ (EvtSendUrel) /\ UNCHANGED << recvVars, replayVars, tableVars, recentVars, inflightVars, streamVars, clientVars, connVars, moreVars >>
    \/ (EvtSendMsg) /\ UNCHANGED << recvVars, replayVars, tableVars, recentVars, inflightVars, streamVars, clientVars, connVars, moreVars >>
    \/ (EvtSessionReplace) /\ UNCHANGED << recvVars, replayVars, tableVars, recentVars, inflightVars, streamVars, clientVars, connVars, moreVars >>
    \/ (EvtDead) /\ UNCHANGED << recvVars, replayVars, tableVars, recentVars, inflightVars, streamVars, clientVars, connVars, moreVars >>
    \/ (\E s \in Sids : StreamRecv(s)) /\ UNCHANGED << recvVars, replayVars, tableVars, recentVars, inflightVars, streamVars, clientVars, connVars, moreVars >>
    \/ (\E s \in Sids, k \in OutKinds : StreamTransmit(s, k)) /\ UNCHANGED << recvVars, replayVars, tableVars, recentVars, inflightVars, streamVars, clientVars, connVars, moreVars >>
    \/ (\E s \in Sids, signalled \in BOOLEAN : OpenResult(s, signalled)) /\ UNCHANGED << recvVars, replayVars, tableVars, recentVars, inflightVars, streamVars, clientVars, connVars, moreVars >>
    \/ (\E s \in Sids : StreamExit(s)) /\ UNCHANGED << recvVars, replayVars, tableVars, recentVars, inflightVars, streamVars, clientVars, connVars, moreVars >>
    \/ (\E r \in reapers : Reap(r)) /\ UNCHANGED << recvVars, replayVars, tableVars, recentVars, inflightVars, streamVars, clientVars, connVars, moreVars >>
    \/ (TickMux) /\ UNCHANGED << recvVars, replayVars, tableVars, recentVars, inflightVars, streamVars, clientVars, connVars, moreVars >>

(***************************************************************************)
(* The life of one relconn actor (relconn_actor in mux/relconn/mod.rs),    *)
(* with the task that hands a locally opened stream to open_conn.  What    *)
(* process_one does to ConnVars in SteadyState is the subject of the       *)
(* stream model above; here only its result matters.  Times are in ms.     *)
(***************************************************************************)
ConnKinds == {"SynAck", "Data", "Rst"}
ConnMessages == { Message_Rel(k, 0, 0, << >>) : k \in ConnKinds } \cup {Message_Empty}
TickSteps == {SynWaitMs, MaxWaitSecs * 1000}

\* the SynSent state's wait_interval, and the same wait for every try
wait_interval_fixed(tries) == SynWaitMs
wait_interval(tries) == 2 ^ tries * SynWaitMs

RelConnState(name, tries, death) == [name |-> name, tries |-> tries, death |-> death]

\* the transmit closure
transmit(msg) == rc_sent' = Append(rc_sent, msg)

\* the actor returns: its guard runs the dropper
Exit == rc_state' = [rc_state EXCEPT !.name = "Exited"]

\* the Reset arm up to its race: the reader is closed and a Rst is sent
EnterReset(death) ==
    /\ rc_state' = RelConnState("Reset", rc_state.tries, death)
    /\ rc_reader_closed' = TRUE
    /\ transmit(Message_Rel("Rst", 0, 0, << >>))

ConnInput == rc_inputs < MaxConnInputs /\ rc_inputs' = rc_inputs + 1

\* RelConnBack::process: the multiplex hands a message to the actor
RelConnBack_process(msg) ==
    /\ ConnInput
    /\ rc_state.name # "Exited"
    /\ rc_wire' = try_send(rc_wire, WireReadCap, msg)
    /\ UNCHANGED << rc_state, rc_listening, rc_wait_start, rc_now, rc_ticks, rc_sent,
                    rc_reader_closed, rc_result, rc_open, rc_reset_at, rc_additional, rc_last_recv >>

TickConn(d) ==
    /\ rc_ticks < MaxConnTicks
    /\ rc_ticks' = rc_ticks + 1
    /\ rc_now' = rc_now + d
    /\ UNCHANGED << rc_state, rc_listening, rc_wait_start, rc_wire, rc_sent,
                    rc_reader_closed, rc_result, rc_open, rc_reset_at, rc_additional,
                    rc_inputs, rc_last_recv >>

\* the SynReceived arm
SynReceived ==
    /\ rc_state.name = "SynReceived"
    /\ transmit(Message_Rel("SynAck", 0, 0, << >>))
    /\ rc_state' = [rc_state EXCEPT !.name = "SteadyState"]
    /\ UNCHANGED << rc_listening, rc_wait_start, rc_wire, rc_now, rc_ticks,
                    rc_reader_closed, rc_result, rc_open, rc_reset_at, rc_additional,
                    rc_inputs, rc_last_recv >>

\* the SynSent arm, synack_evt: a Rel message ends the wait with success,
\* anything else is dropped and the wait goes on
SynSentRecv ==
    /\ rc_state.name = "SynSent"
    /\ rc_wire # << >>
    /\ rc_wire' = Tail(rc_wire)
    /\ rc_last_recv' = Some(Head(rc_wire))
    /\ IF Head(rc_wire).variant = "Rel"
       THEN /\ rc_result' = TRUE
            /\ rc_state' = [rc_state EXCEPT !.name = "SteadyState"]
       ELSE UNCHANGED << rc_result, rc_state >>
    /\ UNCHANGED << rc_listening, rc_wait_start, rc_now, rc_ticks, rc_sent,
                    rc_reader_closed, rc_open, rc_reset_at, rc_additional, rc_inputs >>

\* the SynSent arm, the sleep wins: Syn is sent again; with tries > 5 the
\* next turn of the loop bails out at once
SynSentTimeout ==
    /\ rc_state.name = "SynSent"
    /\ \A i \in 1..Len(rc_wire) : rc_wire[i].variant # "Rel"
    /\ rc_now - rc_wait_start >= wait_interval(rc_state.tries)
    /\ transmit(Message_Rel("Syn", 0, 0,
                            IF rc_additional.some THEN rc_additional.val ELSE << >>))
    /\ rc_state' = [rc_state EXCEPT !.tries = @ + 1,
                                    !.name = IF rc_state.tries + 1 > MaxSynTries
                                             THEN "Exited" ELSE "SynSent"]
    /\ rc_wait_start' = rc_now
    /\ UNCHANGED << rc_listening, rc_wire, rc_now, rc_ticks, rc_reader_closed, rc_result,
                    rc_open, rc_reset_at, rc_additional, rc_inputs, rc_last_recv >>

\* the task spawned with the stream: it waits for the actor's signal and
\* hands the stream to open_conn, or drops result_chan when the actor ended
\* without a signal, which leaves open_conn waiting on a never-ready future
OpenHelper ==
    /\ rc_open = "Waiting"
    /\ \/ rc_result /\ rc_open' = "Ok"
       \/ ~rc_result /\ rc_state.name = "Exited" /\ rc_open' = "Pending"
    /\ UNCHANGED << rc_state, rc_listening, rc_wait_start, rc_wire, rc_now, rc_ticks,
                    rc_sent, rc_reader_closed, rc_result, rc_reset_at, rc_additional,
                    rc_inputs, rc_last_recv >>

\* the SteadyState arm when process_one took a packet: a Rst is an error and
\* leads to Reset, anything else leaves the actor in SteadyState
SteadyRecv ==
    /\ rc_state.name = "SteadyState"
    /\ rc_wire # << >>
    /\ rc_wire' = Tail(rc_wire)
    /\ rc_last_recv' = Some(Head(rc_wire))
    /\ IF Head(rc_wire).variant = "Rel" /\ Head(rc_wire).kind = "Rst"
       THEN /\ EnterReset(rc_now + MaxWaitSecs * 1000)
            /\ rc_reset_at' = rc_now
       ELSE UNCHANGED << rc_state, rc_reader_closed, rc_sent, rc_reset_at >>
    /\ UNCHANGED << rc_listening, rc_wait_start, rc_now, rc_ticks, rc_result, rc_open,
                    rc_additional, rc_inputs >>

\* the SteadyState arm when process_one failed for another reason
SteadyError ==
    /\ rc_state.name = "SteadyState"
    /\ EnterReset(rc_now + MaxWaitSecs * 1000)
    /\ rc_reset_at' = rc_now
    /\ UNCHANGED << rc_listening, rc_wait_start, rc_wire, rc_now, rc_ticks, rc_result,
                    rc_open, rc_additional, rc_inputs, rc_last_recv >>

\* the Reset arm with the deadline moved at every turn
ResetRecv_extend ==
    /\ rc_state.name = "Reset" /\ rc_listening
    /\ rc_wire # << >>
    /\ rc_wire' = Tail(rc_wire)
    /\ rc_last_recv' = Some(Head(rc_wire))
    /\ IF Head(rc_wire).variant = "Rel"
       THEN IF Head(rc_wire).kind = "Rst"
            THEN Exit /\ UNCHANGED << rc_listening, rc_sent, rc_reader_closed >>
            ELSE EnterReset(rc_now + MaxWaitSecs * 1000) /\ UNCHANGED rc_listening
       ELSE /\ rc_listening' = FALSE
            /\ UNCHANGED << rc_state, rc_sent, rc_reader_closed >>
    /\ UNCHANGED << rc_wait_start, rc_now, rc_ticks, rc_result, rc_open, rc_reset_at,
                    rc_additional, rc_inputs >>

\* the Reset arm answering every Rel message, a Rst included, with a Rst
ResetRecv_answer_rst ==
    /\ rc_state.name = "Reset" /\ rc_listening
    /\ rc_wire # << >>
    /\ rc_wire' = Tail(rc_wire)
    /\ rc_last_recv' = Some(Head(rc_wire))
    /\ IF Head(rc_wire).variant = "Rel"
       THEN EnterReset(rc_state.death) /\ UNCHANGED rc_listening
       ELSE /\ rc_listening' = FALSE
            /\ UNCHANGED << rc_state, rc_sent, rc_reader_closed >>
    /\ UNCHANGED << rc_wait_start, rc_now, rc_ticks, rc_result, rc_open, rc_reset_at,
                    rc_additional, rc_inputs >>

\* the Reset arm, a message wins the race: a Rst ends the actor, another Rel
\* message starts the arm again with the same deadline, and after anything
\* else the actor only waits for the deadline
ResetRecv ==
    /\ rc_state.name = "Reset" /\ rc_listening
    /\ rc_wire # << >>
    /\ rc_wire' = Tail(rc_wire)
    /\ rc_last_recv' = Some(Head(rc_wire))
    /\ IF Head(rc_wire).variant = "Rel"
       THEN IF Head(rc_wire).kind = "Rst"
            THEN Exit /\ UNCHANGED << rc_listening, rc_sent, rc_reader_closed >>
            ELSE EnterReset(rc_state.death) /\ UNCHANGED rc_listening
       ELSE /\ rc_listening' = FALSE
            /\ UNCHANGED << rc_state, rc_sent, rc_reader_closed >>
    /\ UNCHANGED << rc_wait_start, rc_now, rc_ticks, rc_result, rc_open, rc_reset_at,
                    rc_additional, rc_inputs >>

\* the Reset arm, the deadline wins the race
ResetDeath ==
    /\ rc_state.name = "Reset"
    /\ rc_now >= rc_state.death
    /\ Exit
    /\ UNCHANGED << rc_listening, rc_wait_start, rc_wire, rc_now, rc_ticks, rc_sent,
                    rc_reader_closed, rc_result, rc_open, rc_reset_at, rc_additional,
                    rc_inputs, rc_last_recv >>

\* RelConn::new with the state the multiplex gives it
InitConnAs(name, open, additional) ==
    /\ rc_state = RelConnState(name, 0, 0)
    /\ rc_open = open
    /\ rc_additional = additional
    /\ rc_listening = TRUE
    /\ rc_wait_start = 0
    /\ rc_wire = << >>
    /\ rc_now = 0
    /\ rc_ticks = 0
    /\ rc_sent = << >>
    /\ rc_reader_closed = FALSE
    /\ rc_result = FALSE
    /\ rc_reset_at = -1
    /\ rc_last_recv = None
    /\ rc_inputs = 0

InitConn ==
    \E additional \in Additional :
        \/ InitConnAs("SynSent", "Waiting", additional)
        \/ InitConnAs("SynReceived", "None", additional)

NextConn ==
    \/ (\E msg \in ConnMessages : RelConnBack_process(msg)) /\ UNCHANGED << recvVars, replayVars, tableVars, recentVars, inflightVars, streamVars, clientVars, muxVars, moreVars >>
    \/ (\E d \in TickSteps : TickConn(d)) /\ UNCHANGED << recvVars, replayVars, tableVars, recentVars, inflightVars, streamVars, clientVars, muxVars, moreVars >>
    \/ (SynReceived) /\ UNCHANGED << recvVars, replayVars, tableVars, recentVars, inflightVars, streamVars, clientVars, muxVars, moreVars >>
    \/ (SynSentRecv) /\ UNCHANGED << recvVars, replayVars, tableVars, recentVars, inflightVars, streamVars, clientVars, muxVars, moreVars >>
    \/ (SynSentTimeout) /\ UNCHANGED << recvVars, replayVars, tableVars, recentVars, inflightVars, streamVars, clientVars, muxVars, moreVars >>
    \/ (OpenHelper) /\ UNCHANGED << recvVars, replayVars, tableVars, recentVars, inflightVars, streamVars, clientVars, muxVars, moreVars >>
    \/ (SteadyRecv) /\ UNCHANGED << recvVars, replayVars, tableVars, recentVars, inflightVars, streamVars, clientVars, muxVars, moreVars >>
    \/ (SteadyError) /\ UNCHANGED << recvVars, replayVars, tableVars, recentVars, inflightVars, streamVars, clientVars, muxVars, moreVars >>
    \/ (ResetRecv) /\ UNCHANGED << recvVars, replayVars, tableVars, recentVars, inflightVars, streamVars, clientVars, muxVars, moreVars >>
    \/ (ResetDeath) /\ UNCHANGED << recvVars, replayVars, tableVars, recentVars, inflightVars, streamVars, clientVars, muxVars, moreVars >>

(***************************************************************************)
(* Two multiplexes joined by a session that delivers in order: the opening *)
(* handshake between them (multiplex_actor.rs, relconn/mod.rs).  A table   *)
(* entry records the state of the stream's actor and whether the stream    *)
(* was opened here or accepted from the peer.                              *)
(***************************************************************************)
Peers == {"a", "b"}
OtherPeer(p) == IF p = "a" THEN "b" ELSE "a"

PairSend(w, to, msg) == [w EXCEPT ![to] = Append(@, msg)]

\* open_conn and the task of the ConnOpen event: find_id, RelConn::new in
\* SynSent, set_stream, and the Syn, which goes out through glob_send
PairOpen(p) ==
    /\ pr_opens[p] < MaxPairOpens
    /\ pr_opens' = [pr_opens EXCEPT ![p] = @ + 1]
    /\ \E stream_id \in { s \in Sids : ~pr_tab[p][s].some } :
          /\ pr_tab' = [pr_tab EXCEPT ![p][stream_id] =
                           Some([state |-> "SynSent", origin |-> "open"])]
          /\ pr_wire' = PairSend(pr_wire, OtherPeer(p),
                                 Message_Rel("Syn", stream_id, 0, << >>))
    /\ UNCHANGED << pr_accept, pr_accepted, pr_returned >>

\* Event::RecvMsg of peer p with a Syn
PairRecvSyn(p) ==
    /\ pr_wire[p] # << >>
    /\ Head(pr_wire[p]).kind = "Syn"
    /\ LET stream_id == Head(pr_wire[p]).stream_id
       IN IF pr_tab[p][stream_id].some
          THEN /\ pr_wire' = PairSend([pr_wire EXCEPT ![p] = Tail(@)], OtherPeer(p),
                                      Message_Rel("SynAck", stream_id, 0, << >>))
               /\ UNCHANGED << pr_tab, pr_accept >>
          ELSE /\ pr_tab' = [pr_tab EXCEPT ![p][stream_id] =
                                Some([state |-> "SynReceived", origin |-> "accept"])]
               /\ pr_accept' = [pr_accept EXCEPT ![p] =
                                   try_send(@, ConnAcceptCap, stream_id)]
               /\ pr_wire' = [pr_wire EXCEPT ![p] = Tail(@)]
    /\ UNCHANGED << pr_accepted, pr_returned, pr_opens >>

\* Event::RecvMsg of peer p with another Rel message, and what the actor of
\* the stream does with it: in SynSent any Rel message ends the wait, the
\* signal is sent and open_conn returns the stream
PairRecvRel(p) ==
    /\ pr_wire[p] # << >>
    /\ Head(pr_wire[p]).kind # "Syn"
    /\ LET stream_id == Head(pr_wire[p]).stream_id
           kind == Head(pr_wire[p]).kind
       IN IF pr_tab[p][stream_id].some
          THEN /\ pr_wire' = [pr_wire EXCEPT ![p] = Tail(@)]
               /\ IF pr_tab[p][stream_id].val.state = "SynSent"
                  THEN /\ pr_tab' = [pr_tab EXCEPT ![p][stream_id].val.state = "SteadyState"]
                       /\ pr_returned' = [pr_returned EXCEPT ![p] = @ \cup {stream_id}]
                  ELSE UNCHANGED << pr_tab, pr_returned >>
          ELSE /\ pr_wire' =
                     IF kind # "Rst"
                     THEN PairSend([pr_wire EXCEPT ![p] = Tail(@)], OtherPeer(p),
                                   Message_Rel("Rst", stream_id, 0, << >>))
                     ELSE [pr_wire EXCEPT ![p] = Tail(@)]
               /\ UNCHANGED << pr_tab, pr_returned >>
    /\ UNCHANGED << pr_accept, pr_accepted, pr_opens >>

\* the SynReceived arm of the actor of an accepted stream
PairSynReceived(p, stream_id) ==
    /\ pr_tab[p][stream_id].some
    /\ pr_tab[p][stream_id].val.state = "SynReceived"
    /\ pr_tab' = [pr_tab EXCEPT ![p][stream_id].val.state = "SteadyState"]
    /\ pr_wire' = PairSend(pr_wire, OtherPeer(p), Message_Rel("SynAck", stream_id, 0, << >>))
    /\ UNCHANGED << pr_accept, pr_accepted, pr_returned, pr_opens >>

\* Multiplex::accept_conn
accept_conn(p) ==
    /\ pr_accept[p] # << >>
    /\ pr_accept' = [pr_accept EXCEPT ![p] = Tail(@)]
    /\ pr_accepted' = [pr_accepted EXCEPT ![p] = @ \cup {Head(pr_accept[p])}]
    /\ UNCHANGED << pr_tab, pr_wire, pr_returned, pr_opens >>

InitPair ==
    /\ pr_tab = [p \in Peers |-> [s \in Sids |-> None]]
    /\ pr_wire = [p \in Peers |-> << >>]
    /\ pr_accept = [p \in Peers |-> << >>]
    /\ pr_accepted = [p \in Peers |-> {}]
    /\ pr_returned = [p \in Peers |-> {}]
    /\ pr_opens = [p \in Peers |-> 0]

NextPair ==
    \/ (\E p \in Peers : PairOpen(p)) /\ UNCHANGED << coreVars, bufVars, djVars, wkVars, tcpVars >>
    \/ (\E p \in Peers : PairRecvSyn(p)) /\ UNCHANGED << coreVars, bufVars, djVars, wkVars, tcpVars >>
    \/ (\E p \in Peers : PairRecvRel(p)) /\ UNCHANGED << coreVars, bufVars, djVars, wkVars, tcpVars >>
    \/ (\E p \in Peers, s \in Sids : PairSynReceived(p, s)) /\ UNCHANGED << coreVars, bufVars, djVars, wkVars, tcpVars >>
    \/ (\E p \in Peers : accept_conn(p)) /\ UNCHANGED << coreVars, bufVars, djVars, wkVars, tcpVars >>

(***************************************************************************)
(* The buffer pool of one thread (buffer.rs).  A vector is known by its    *)
(* capacity; BUFF_POOL is the thread-local Vec of vectors, used as a stack. *)
(***************************************************************************)
\* BuffMut::new: the last vector of the free-list, or a fresh one; clear()
\* keeps the capacity
BuffMut_new ==
    /\ Len(buf_live) < MaxLiveBufs
    /\ LET new_vec == IF BUFF_POOL # << >> THEN BUFF_POOL[Len(BUFF_POOL)]
                      ELSE FreshCapacity
       IN /\ buf_live' = Append(buf_live, new_vec)
          /\ buf_last' = [op |-> "new", capacity |-> new_vec]
    /\ BUFF_POOL' = IF BUFF_POOL # << >> THEN SubSeq(BUFF_POOL, 1, Len(BUFF_POOL) - 1)
                    ELSE BUFF_POOL

\* extend_from_slice through DerefMut with more bytes than the vector holds
BuffMut_extend(i) ==
    /\ i \in DOMAIN buf_live
    /\ buf_live[i] < GrownCapacity
    /\ buf_live' = [buf_live EXCEPT ![i] = GrownCapacity]
    /\ buf_last' = [op |-> "extend", capacity |-> GrownCapacity]
    /\ UNCHANGED BUFF_POOL

\* Drop for BuffMut: the vector is pushed while the free-list holds fewer
\* than PoolLimit vectors, otherwise it is freed
BuffMut_drop(i) ==
    /\ i \in DOMAIN buf_live
    /\ buf_live' = [j \in 1..(Len(buf_live) - 1) |->
                      IF j < i THEN buf_live[j] ELSE buf_live[j + 1]]
    /\ buf_last' = [op |-> "drop", capacity |-> buf_live[i]]
    /\ BUFF_POOL' = IF Len(BUFF_POOL) < PoolLimit THEN Append(BUFF_POOL, buf_live[i])
                    ELSE BUFF_POOL

\* a thread that has created n + k buffers and dropped n of them
InitBufPool(n, k) ==
    /\ BUFF_POOL = [i \in 1..n |-> FreshCapacity]
    /\ buf_live = [i \in 1..k |-> FreshCapacity]
    /\ buf_last = [op |-> "none", capacity |-> 0]

InitBuf ==
    \E n \in {0, PoolWarm, PoolLimit - 1}, k \in {0, MaxLiveBufs - 1} : InitBufPool(n, k)
InitBufIdle == InitBufPool(0, 0)

NextBuf ==
    \/ BuffMut_new /\ UNCHANGED << coreVars, pairVars, djVars, wkVars, tcpVars >>
    \/ (\E i \in 1..MaxLiveBufs : BuffMut_extend(i)) /\ UNCHANGED << coreVars, pairVars, djVars, wkVars, tcpVars >>
    \/ (\E i \in 1..MaxLiveBufs : BuffMut_drop(i)) /\ UNCHANGED << coreVars, pairVars, djVars, wkVars, tcpVars >>

(***************************************************************************)
(* The dejitter buffer of a session (session/dejitter.rs).  A packet is    *)
(* known by the order in which it was sent into the channel.               *)
(***************************************************************************)
SeqnoSpan == 2 ^ SeqnoBits
DjSeqnos == 0..(SeqnoSpan - 1)

\* Slab::insert: the key most recently vacated, or a new one at the end
Slab_insert(slab, val) ==
    IF slab.free # << >>
    THEN [key |-> Head(slab.free),
          slab |-> [entries |-> [slab.entries EXCEPT ![Head(slab.free)] = Some(val)],
                    free |-> Tail(slab.free)]]
    ELSE [key |-> Len(slab.entries) + 1,
          slab |-> [entries |-> Append(slab.entries, Some(val)), free |-> slab.free]]

\* Slab::remove: panics on a vacant key
Slab_remove(slab, key) ==
    [entries |-> [slab.entries EXCEPT ![key] = None], free |-> << key >> \o slab.free]

Slab_len(slab) == Cardinality({ k \in DOMAIN slab.entries : slab.entries[k].some })

\* BinaryHeap::peek on (Reverse(seqno), idx): the lowest seqno, and of equal
\* seqnos the highest idx
Heap_peek(order) ==
    CHOOSE e \in order : \A f \in order : e[1] < f[1] \/ (e[1] = f[1] /\ e[2] >= f[2])

\* DejitterRecv::push_local
push_local(packet, seqno) ==
    LET ins == Slab_insert(dj_packets, packet)
    IN /\ dj_arrivals' = Append(dj_arrivals, 0)
       /\ dj_packets' = ins.slab
       /\ dj_order' = dj_order \cup {<< seqno, ins.key >>}

\* pop_local with the arrival left in its queue
pop_local_keep_arrival ==
    IF Len(dj_arrivals) # Cardinality(dj_order)
    THEN /\ dj_panic' = "assert"
         /\ UNCHANGED << dj_order, dj_arrivals, dj_last_popped, dj_packets, dj_returned >>
    ELSE IF dj_order = {}
    THEN /\ dj_panic' = "expect"
         /\ UNCHANGED << dj_order, dj_arrivals, dj_last_popped, dj_packets, dj_returned >>
    ELSE LET top == Heap_peek(dj_order)
         IN /\ dj_order' = dj_order \ {top}
            /\ dj_last_popped' = top[1]
            /\ dj_packets' = Slab_remove(dj_packets, top[2])
            /\ dj_returned' = Append(dj_returned,
                                     [pkt |-> dj_packets.entries[top[2]].val, seqno |-> top[1]])
            /\ UNCHANGED << dj_panic, dj_arrivals >>

\* DejitterRecv::pop_local followed by the caller's expect: the assertion,
\* the pop of the heap (None on an empty heap), the pop of the arrivals
pop_local ==
    IF Len(dj_arrivals) # Cardinality(dj_order)
    THEN /\ dj_panic' = "assert"
         /\ UNCHANGED << dj_order, dj_arrivals, dj_last_popped, dj_packets, dj_returned >>
    ELSE IF dj_order = {}
    THEN /\ dj_panic' = "expect"
         /\ UNCHANGED << dj_order, dj_arrivals, dj_last_popped, dj_packets, dj_returned >>
    ELSE LET top == Heap_peek(dj_order)
         IN /\ dj_order' = dj_order \ {top}
            /\ dj_arrivals' = Tail(dj_arrivals)
            /\ dj_last_popped' = top[1]
            /\ dj_packets' = Slab_remove(dj_packets, top[2])
            /\ dj_returned' = Append(dj_returned,
                                     [pkt |-> dj_packets.entries[top[2]].val, seqno |-> top[1]])
            /\ UNCHANGED dj_panic

\* the test at the top of recv's loop; the addition wraps at the width of
\* a seqno
Consecutive ==
    dj_order # {} /\ Heap_peek(dj_order)[1] = (dj_last_popped + 1) % SeqnoSpan

\* a sender puts a pair into the channel
DejitterSend(seqno) ==
    /\ ~dj_closed
    /\ Len(dj_injected) < MaxInjects
    /\ dj_injected' = Append(dj_injected, seqno)
    /\ dj_injector' = Append(dj_injector, [pkt |-> Len(dj_injected) + 1, seqno |-> seqno])
    /\ UNCHANGED << dj_closed, dj_packets, dj_arrivals, dj_order, dj_last_popped,
                    dj_returned, dj_panic, dj_failed >>

\* the last sender is dropped
DejitterClose ==
    /\ ~dj_closed
    /\ dj_closed' = TRUE
    /\ UNCHANGED << dj_injector, dj_packets, dj_arrivals, dj_order, dj_last_popped,
                    dj_injected, dj_returned, dj_panic, dj_failed >>

\* recv: the lowest seqno follows the last one returned
RecvConsecutive ==
    /\ dj_panic = "none"
    /\ Consecutive
    /\ pop_local
    /\ UNCHANGED << dj_injector, dj_closed, dj_injected, dj_failed >>

\* recv: the race is won by the channel, which yields a pair
RecvNewInject ==
    /\ dj_panic = "none"
    /\ ~Consecutive
    /\ dj_injector # << >>
    /\ dj_injector' = Tail(dj_injector)
    /\ push_local(Head(dj_injector).pkt, Head(dj_injector).seqno)
    /\ UNCHANGED << dj_closed, dj_last_popped, dj_injected, dj_returned, dj_panic, dj_failed >>

\* recv: the race is won by the channel, closed and empty: recv returns Err
RecvClosed ==
    /\ dj_panic = "none"
    /\ ~Consecutive
    /\ dj_injector = << >> /\ dj_closed
    /\ dj_failed' = TRUE
    /\ UNCHANGED << dj_injector, dj_closed, dj_packets, dj_arrivals, dj_order,
                    dj_last_popped, dj_injected, dj_returned, dj_panic >>

\* recv: the race is won by the timer, set to the oldest arrival + 20 ms
RecvTimeout ==
    /\ dj_panic = "none"
    /\ ~Consecutive
    /\ dj_arrivals # << >>
    /\ dj_arrivals[1] >= DejitterMs
    /\ pop_local
    /\ UNCHANGED << dj_injector, dj_closed, dj_injected, dj_failed >>

\* time passes: it is counted for each arrival up to the release delay
TickDejitter ==
    /\ \E i \in DOMAIN dj_arrivals : dj_arrivals[i] < DejitterMs
    /\ dj_arrivals' = [i \in DOMAIN dj_arrivals |-> Min(dj_arrivals[i] + DjTickMs, DejitterMs)]
    /\ UNCHANGED << dj_injector, dj_closed, dj_packets, dj_order, dj_last_popped,
                    dj_injected, dj_returned, dj_panic, dj_failed >>

\* DejitterRecv::new
InitDejitter ==
    /\ dj_injector = << >>
    /\ dj_closed = FALSE
    /\ dj_packets = [entries |-> << >>, free |-> << >>]
    /\ dj_arrivals = << >>
    /\ dj_order = {}
    /\ dj_last_popped = 0
    /\ dj_injected = << >>
    /\ dj_returned = << >>
    /\ dj_panic = "none"
    /\ dj_failed = FALSE

\* one turn of recv's loop
RecvTurn ==
    RecvConsecutive \/ RecvNewInject \/ RecvClosed \/ RecvTimeout

NextDejitter ==
    \/ (\E seqno \in DjSeqnos : DejitterSend(seqno)) /\ UNCHANGED << coreVars, pairVars, bufVars, wkVars, tcpVars >>
    \/ DejitterClose /\ UNCHANGED << coreVars, pairVars, bufVars, wkVars, tcpVars >>
    \/ RecvConsecutive /\ UNCHANGED << coreVars, pairVars, bufVars, wkVars, tcpVars >>
    \/ RecvNewInject /\ UNCHANGED << coreVars, pairVars, bufVars, wkVars, tcpVars >>
    \/ RecvClosed /\ UNCHANGED << coreVars, pairVars, bufVars, wkVars, tcpVars >>
    \/ RecvTimeout /\ UNCHANGED << coreVars, pairVars, bufVars, wkVars, tcpVars >>
    \/ TickDejitter /\ UNCHANGED << coreVars, pairVars, bufVars, wkVars, tcpVars >>

\* recv is called again and again, and time passes
FairDejitter ==
    /\ WF_vars(RecvTurn /\ UNCHANGED << coreVars, pairVars, bufVars, wkVars, tcpVars >>)
    /\ WF_vars(TickDejitter /\ UNCHANGED << coreVars, pairVars, bufVars, wkVars, tcpVars >>)

(***************************************************************************)
(* One run of client_backhaul_once (client/worker.rs): a worker with its   *)
(* own socket.  Times are in ms.                                           *)
(***************************************************************************)
UploadBodies == {<< 1 >>, << 2 >>}
Sources == {"server_addr", "stray"}
WkResumeToken == << 9 >>
WkShardId == 1

\* pad_encrypt_v1 of the handshake frames under the c2s key of the cookie
pad_encrypt_v1(frames) == << "pad_encrypt_v1", frames >>

HandshakeFrame_ClientResume(resume_token, shard_id) ==
    [frame |-> "ClientResume", resume_token |-> resume_token, shard_id |-> shard_id]

ResumePacket == pad_encrypt_v1(<< HandshakeFrame_ClientResume(WkResumeToken, WkShardId) >>)

\* now.saturating_duration_since(f) > 1 s, false for None
GapOver(t, now) == t.some /\ Max(now - t.val, 0) > ResumeGapMs

\* the test before an upload with the first-time clause alone
ResumeDue_first_only(now) == ~wk_updated

\* the test before an upload
ResumeDue(now) ==
    \/ GapOver(wk_last_incoming_time, now)
    \/ GapOver(wk_last_outgoing_time, now)
    \/ ~wk_updated

socket_send_to(sock, bytes, dest) == Append(sock, [bytes |-> bytes, dest |-> dest, at |-> wk_now])

\* ClientWorker::send_upload
send_upload(buff) ==
    /\ Len(wk_uploads) < MaxUploads
    /\ wk_uploads' = Append(wk_uploads, buff)
    /\ wk_recv_upload' = Append(wk_recv_upload, buff)
    /\ UNCHANGED << wk_updated, wk_last_incoming_time, wk_last_outgoing_time, wk_received,
                    wk_now, wk_socket >>

\* Evt::Incoming
EvtIncoming(src) ==
    /\ wk_received < MaxUploads
    /\ wk_received' = IF src = "server_addr" THEN wk_received + 1 ELSE wk_received
    /\ wk_last_incoming_time' = Some(wk_now)
    /\ UNCHANGED << wk_updated, wk_last_outgoing_time, wk_recv_upload, wk_now, wk_socket,
                    wk_uploads >>

\* Evt::Outgoing
EvtOutgoing ==
    /\ wk_recv_upload # << >>
    /\ wk_recv_upload' = Tail(wk_recv_upload)
    /\ LET bts == Head(wk_recv_upload)
           now == wk_now
       IN IF ResumeDue(now)
          THEN /\ wk_updated' = TRUE
               /\ wk_last_outgoing_time' = Some(now)
               /\ wk_socket' = socket_send_to(
                                    socket_send_to(wk_socket, ResumePacket, "server_addr"),
                                    bts, "server_addr")
          ELSE /\ wk_socket' = socket_send_to(wk_socket, bts, "server_addr")
               /\ UNCHANGED << wk_updated, wk_last_outgoing_time >>
    /\ UNCHANGED << wk_last_incoming_time, wk_received, wk_now, wk_uploads >>

TickWorker ==
    /\ wk_now < MaxWkTicks * WkTickMs
    /\ wk_now' = wk_now + WkTickMs
    /\ UNCHANGED << wk_updated, wk_last_incoming_time, wk_last_outgoing_time, wk_recv_upload,
                    wk_received, wk_socket, wk_uploads >>

\* client_backhaul_once before its loop
InitWorker ==
    /\ wk_updated = FALSE
    /\ wk_last_incoming_time = None
    /\ wk_last_outgoing_time = None
    /\ wk_recv_upload = << >>
    /\ wk_received = 0
    /\ wk_now = 0
    /\ wk_socket = << >>
    /\ wk_uploads = << >>

NextWorker ==
    \/ (\E buff \in UploadBodies : send_upload(buff)) /\ UNCHANGED << coreVars, pairVars, bufVars, djVars, tcpVars >>
    \/ (\E src \in Sources : EvtIncoming(src)) /\ UNCHANGED << coreVars, pairVars, bufVars, djVars, tcpVars >>
    \/ EvtOutgoing /\ UNCHANGED << coreVars, pairVars, bufVars, djVars, tcpVars >>
    \/ TickWorker /\ UNCHANGED << coreVars, pairVars, bufVars, djVars, tcpVars >>

(***************************************************************************)
(* The connection pool of a TcpClientBackhaul (tcp/client.rs).  send_to is *)
(* called from several tasks; the pool is locked for the length of         *)
(* get_conn_pooled and of put_conn only.  Times are in seconds.            *)
(***************************************************************************)
Dests == {"d1", "d2"}
TcpCallers == 1..MaxTcpCallers
CallIdle == [at |-> "idle"]

\* the connections of a pool that get_conn_pooled drops before it finds
\* one younger than CONN_LIFETIME
StalePrefix(pool) ==
    CHOOSE n \in 0..Len(pool) :
        /\ \A i \in 1..n : ~(tcp_now - pool[i].time < CONN_LIFETIME)
        /\ n < Len(pool) => tcp_now - pool[n + 1].time < CONN_LIFETIME

\* get_conn_pooled: what it returns and what it leaves in the pool
get_conn_pooled(addr) ==
    LET pool == conn_pool[addr]
        n == StalePrefix(pool)
    IN IF n < Len(pool)
       THEN [ret |-> Some(pool[n + 1]), pool |-> SubSeq(pool, n + 2, Len(pool))]
       ELSE [ret |-> None, pool |-> << >>]

\* put_conn
put_conn(addr, stream, time) ==
    conn_pool' = [conn_pool EXCEPT ![addr] = Append(@, [conn |-> stream, time |-> time])]

\* send_to up to the end of get_conn_pooled: a pooled connection is taken,
\* or the task goes on to open one
SendToGet(c, dest) ==
    /\ tcp_calls[c].at = "idle"
    /\ tcp_sends < MaxTcpSends
    /\ tcp_sends' = tcp_sends + 1
    /\ LET got == get_conn_pooled(dest)
       IN /\ conn_pool' = [conn_pool EXCEPT ![dest] = got.pool]
          /\ tcp_calls' = [tcp_calls EXCEPT ![c] =
                IF got.ret.some
                THEN [at |-> "write", dest |-> dest, conn |-> got.ret.val.conn,
                      time |-> got.ret.val.time, pooled |-> TRUE,
                      age |-> tcp_now - got.ret.val.time]
                ELSE [at |-> "connect", dest |-> dest]]
    /\ UNCHANGED << tcp_now, tcp_opened >>

\* get_conn, no pooled connection: connect and handshake, which succeed or
\* fail; a new connection carries the time at which it was made
SendToConnect(c, ok) ==
    /\ tcp_calls[c].at = "connect"
    /\ IF ok
       THEN /\ tcp_opened' = tcp_opened + 1
            /\ tcp_calls' = [tcp_calls EXCEPT ![c] =
                  [at |-> "write", dest |-> tcp_calls[c].dest, conn |-> tcp_opened + 1,
                   time |-> tcp_now, pooled |-> FALSE, age |-> 0]]
       ELSE /\ tcp_calls' = [tcp_calls EXCEPT ![c] = CallIdle]
            /\ UNCHANGED tcp_opened
    /\ UNCHANGED << conn_pool, tcp_now, tcp_sends >>

\* the write and what follows: the connection goes back to the pool, or is
\* thrown away when the write did not complete at once
SendToWrite(c, ok) ==
    /\ tcp_calls[c].at = "write"
    /\ tcp_calls' = [tcp_calls EXCEPT ![c] = CallIdle]
    /\ IF ok
       THEN put_conn(tcp_calls[c].dest, tcp_calls[c].conn, tcp_calls[c].time)
       ELSE UNCHANGED conn_pool
    /\ UNCHANGED << tcp_now, tcp_opened, tcp_sends >>

TickTcp ==
    /\ tcp_now < MaxTcpTicks * TcpTickSecs
    /\ tcp_now' = tcp_now + TcpTickSecs
    /\ UNCHANGED << conn_pool, tcp_calls, tcp_opened, tcp_sends >>

\* TcpClientBackhaul::new
InitTcp ==
    /\ conn_pool = [d \in Dests |-> << >>]
    /\ tcp_calls = [c \in TcpCallers |-> CallIdle]
    /\ tcp_now = 0
    /\ tcp_opened = 0
    /\ tcp_sends = 0

NextTcp ==
    \/ (\E c \in TcpCallers, dest \in Dests : SendToGet(c, dest)) /\ UNCHANGED << coreVars, pairVars, bufVars, djVars, wkVars >>
    \/ (\E c \in TcpCallers, ok \in BOOLEAN : SendToConnect(c, ok)) /\ UNCHANGED << coreVars, pairVars, bufVars, djVars, wkVars >>
    \/ (\E c \in TcpCallers, ok \in BOOLEAN : SendToWrite(c, ok)) /\ UNCHANGED << coreVars, pairVars, bufVars, djVars, wkVars >>
    \/ TickTcp /\ UNCHANGED << coreVars, pairVars, bufVars, djVars, wkVars >>

\* the subsystems modelled after the first ones, at rest
InitMore == InitPair /\ InitBufIdle /\ InitDejitter /\ InitWorker /\ InitTcp

\* the subsystems modelled first, at rest
InitMuxIdle == InitMuxTable(0)
InitConnIdle == InitConnAs("SynReceived", "None", None)

Init ==
    /\ InitSession /\ InitTable /\ InitRecent /\ InitInflight /\ InitStream /\ InitClient
    /\ InitMuxIdle /\ InitConnIdle /\ InitMore

SpecRecv == Init /\ [][NextRecv]_vars
SpecReplay == Init /\ [][NextReplay]_vars
InitOfWindow ==
    /\ InitWindow /\ InitTable /\ InitRecent /\ InitInflight /\ InitStream /\ InitClient
    /\ InitMuxIdle /\ InitConnIdle /\ InitMore
SpecWindow == InitOfWindow /\ [][NextWindow]_vars
SpecTable == Init /\ [][NextTable]_vars
SpecRecent == Init /\ [][NextRecent]_vars
SpecInflight == Init /\ [][NextInflight]_vars
SpecStream == Init /\ [][NextStream]_vars
InitOfCwnd ==
    /\ InitSession /\ InitTable /\ InitRecent /\ InitInflight /\ InitCwnd /\ InitClient
    /\ InitMuxIdle /\ InitConnIdle /\ InitMore
SpecCwnd == InitOfCwnd /\ [][NextCwnd]_vars
InitOfAck ==
    /\ InitSession /\ InitTable /\ InitRecent /\ InitInflight /\ InitAck /\ InitClient
    /\ InitMuxIdle /\ InitConnIdle /\ InitMore
SpecAck == InitOfAck /\ [][NextAck]_vars
SpecAckLive == InitOfAck /\ [][NextAck]_vars /\ FairAck
SpecClient == Init /\ [][NextClient]_vars
InitOfMux ==
    /\ InitSession /\ InitTable /\ InitRecent /\ InitInflight /\ InitStream /\ InitClient
    /\ InitMux /\ InitConnIdle /\ InitMore
SpecMux == InitOfMux /\ [][NextMux]_vars
InitOfConn ==
    /\ InitSession /\ InitTable /\ InitRecent /\ InitInflight /\ InitStream /\ InitClient
    /\ InitMuxIdle /\ InitConn /\ InitMore
SpecConn == InitOfConn /\ [][NextConn]_vars
SpecPair == Init /\ [][NextPair]_vars
InitCore ==
    /\ InitSession /\ InitTable /\ InitRecent /\ InitInflight /\ InitStream /\ InitClient
    /\ InitMuxIdle /\ InitConnIdle
InitOfBuf == InitCore /\ InitPair /\ InitBuf /\ InitDejitter /\ InitWorker /\ InitTcp
SpecBuf == InitOfBuf /\ [][NextBuf]_vars
SpecDejitter == Init /\ [][NextDejitter]_vars /\ FairDejitter
SpecWorker == Init /\ [][NextWorker]_vars
SpecTcp == Init /\ [][NextTcp]_vars

(***************************************************************************)
(* Properties of the session receive machine.                              *)
(***************************************************************************)
LastOut == IF last_res.some THEN last_res.val ELSE << >>

\* the highest frame_no emitted before the k-th pair of the last call
HighBefore(k) ==
    SetMax({high_before} \cup { LastOut[j].frame_no : j \in 1..(k - 1) })

\* C2: over any sequence of Data and Parity frames, no frame_no is emitted
\* twice, neither directly nor as an FEC reconstruction.
C2_NoFrameEmittedTwice ==
    \A n \in DOMAIN emit : emit[n].count = 1

\* a frame recovered by FEC is delivered afterwards as a Data frame and is
\* not emitted again
C2_Witness ==
    /\ last_in.kind = "Data"
    /\ last_in.frame_no \in DOMAIN emit
    /\ emit[last_in.frame_no].via = "fec"
    /\ ~last_res.some

\* C3 (as claimed): the emitted frame_no values are strictly increasing.
C3_StrictlyIncreasing ==
    \A k \in 1..Len(LastOut) : LastOut[k].frame_no > HighBefore(k)

\* C3 (amended): once frame n has been emitted, no frame with a number below
\* n - 10000 is emitted afterwards.
C3_NeverBelowWindow ==
    \A k \in 1..Len(LastOut) : LastOut[k].frame_no >= HighBefore(k) - ReplayWindow

\* a frame is emitted out of order, after a frame far ahead of it
C3_Witness ==
    /\ high_before > ReplayWindow
    /\ \E k \in 1..Len(LastOut) : LastOut[k].frame_no < high_before

\* C4: add(s) returns true at most once per seqno; twice in a row on a fresh
\* in-window seqno it returns true then false; it returns false whenever s is
\* below bottom_seqno or was accepted before.
C4_AddTrueAtMostOnce ==
    /\ \A s \in DOMAIN rf_accepted : rf_accepted[s] = 1
    /\ \A k \in 1..Len(rf_calls) :
          LET c == rf_calls[k] IN
          /\ (c.below \/ c.accepted_before) => ~c.ret
          /\ (~c.below /\ ~c.accepted_before) => c.ret
    /\ (Len(rf_calls) = 2 /\ rf_calls[1].seqno = rf_calls[2].seqno /\ rf_calls[1].ret)
          => ~rf_calls[2].ret

\* add(s) twice in a row returned true then false, with older seqnos evicted
C4_Witness ==
    /\ Len(rf_calls) = 2
    /\ rf_calls[1].seqno = rf_calls[2].seqno
    /\ rf_calls[1].ret /\ ~rf_calls[2].ret
    /\ replay_filter.bottom_seqno > 0

\* the frames of a run that the decoder holds: cached data frames plus
\* distinct parity frames
HeldCount(key) ==
    Cardinality(RunRange(key) \cap DOMAIN data_frames)
    + (IF key \in DOMAIN parity_space
       THEN Cardinality(DOMAIN parity_space[key] \ {DoneIdx}) ELSE 0)

\* the frames of a run given to process so far
DeliveredCount(key) ==
    Cardinality({ d \in delivered : d.kind = "Data" /\ d.frame_no \in RunRange(key) })
    + Cardinality({ d \in delivered : d.kind = "Parity" /\ d.key = key })

EmittedIntact(n) ==
    n \in DOMAIN emit /\ emit[n].count = 1 /\ emit[n].body = OrigBody(n)

\* C9 (as claimed): whenever at least K of the K+M frames of a run have been
\* delivered, in any order, all K data frames have been emitted intact.
C9_AnyOrderRecovers ==
    \A key \in Runs :
        DeliveredCount(key) >= key.data_len
            => \A n \in RunRange(key) : EmittedIntact(n)

\* C9 (amended): whenever a Parity frame of a run is processed and the decoder
\* then holds at least K frames of the run, every data frame of the run still
\* inside the replay window has been emitted once with its original body.
C9_ParityLastRecovers ==
    \A key \in Runs :
        (last_in.kind = "Parity" /\ last_in.key = key
           /\ HeldCount(key) >= key.data_len)
            => \A n \in RunRange(key) :
                  n < replay_filter.bottom_seqno \/ EmittedIntact(n)

\* a parity frame completed a run and a data frame never delivered was
\* reconstructed from it
C9_Witness ==
    /\ last_in.kind = "Parity"
    /\ HeldCount(last_in.key) >= last_in.key.data_len
    /\ \E k \in 1..Len(LastOut) :
          /\ LastOut[k].frame_no \in RunRange(last_in.key)
          /\ [kind |-> "Data", frame_no |-> LastOut[k].frame_no] \notin delivered
          /\ EmittedIntact(LastOut[k].frame_no)
          /\ emit[LastOut[k].frame_no].via = "fec"

(***************************************************************************)
(* Properties of the session table.                                        *)
(***************************************************************************)
\* the sessions whose sharded_addrs hold address a on some shard
Holders(a) ==
    { t \in DOMAIN token_to_sess :
        \E i \in DOMAIN token_to_sess[t] : token_to_sess[t][i].addr = a }

\* C6: every address in the addr->token map appears in the sharded_addrs of
\* exactly one session, the one its token names.
C6_AddrInExactlyOneSession ==
    \A a \in DOMAIN addr_to_token : Holders(a) = {addr_to_token[a]}

\* C38: after rebind(addr, shard_id, token) has succeeded, and as long as
\* that shard of that session is not rebound to another address and the
\* session is not deleted, lookup(addr) returns that session, whatever is
\* done to other shards and other sessions: stated for the operation that
\* follows the rebind.
C38_BindingSurvives ==
    [][tbl_last.op = "rebind" =>
          LET addr == tbl_last.addr
              token == tbl_last.token
              shard_id == tbl_last.shard_id
          IN  (/\ token \in DOMAIN token_to_sess'
               /\ token_to_sess'[token][shard_id].addr = addr) =>
                  lookup(SessionTable', addr) = Some(token)]_vars

\* C7: get_addr returns the current address of some shard; of a shard updated
\* less than 10 s ago when there is one, else of a most recently updated shard.
C7_GetAddrCurrentAndRecent ==
    (tbl_last.op = "get_addr" /\ tbl_last.token \in DOMAIN token_to_sess) =>
        LET map == token_to_sess[tbl_last.token]
            recent == { i \in DOMAIN map : tbl_last.at - map[i].usage < 10000 }
        IN /\ \E i \in DOMAIN map : map[i].addr = tbl_last.ret
           /\ recent # {} => \E i \in recent : map[i].addr = tbl_last.ret
           /\ recent = {} =>
                 \E i \in DOMAIN map :
                    /\ map[i].addr = tbl_last.ret
                    /\ \A j \in DOMAIN map : map[j].usage <= map[i].usage

\* no shard is recent, and get_addr returned the address of the later of two
\* shards holding different addresses
C7_Witness ==
    /\ tbl_last.op = "get_addr"
    /\ tbl_last.token \in DOMAIN token_to_sess
    /\ LET map == token_to_sess[tbl_last.token] IN
       /\ \A i \in DOMAIN map : tbl_last.at - map[i].usage >= 10000
       /\ \E i, j \in DOMAIN map :
             /\ map[i].usage < map[j].usage
             /\ map[i].addr # map[j].addr
             /\ tbl_last.ret = map[j].addr

\* C8 (as claimed): the get_addr that directly follows a successful rebind
\* returns the rebound address.
C8_NextGetAddrIsNewAddr ==
    (tbl_last.op = "get_addr" /\ tbl_last.after.some) =>
        tbl_last.ret = tbl_last.after.val.addr

\* C8 (amended): the get_addr that directly follows a successful rebind returns
\* the rebound address or the address of another shard updated less than 10 s
\* ago (or at the instant of the rebind); it returns the rebound address when
\* every other shard holds that address too or is older than both.
C8_NextGetAddrAfterRebind ==
    (tbl_last.op = "get_addr" /\ tbl_last.after.some
       /\ tbl_last.token \in DOMAIN token_to_sess) =>
        LET map == token_to_sess[tbl_last.token]
            a == tbl_last.after.val.addr
            s == tbl_last.after.val.shard_id
            others == DOMAIN map \ {s}
        IN /\ \/ tbl_last.ret = a
              \/ \E i \in others :
                    /\ map[i].addr = tbl_last.ret
                    /\ \/ tbl_last.at - map[i].usage < 10000
                       \/ map[i].usage = map[s].usage
           /\ (\A i \in others :
                  \/ map[i].addr = a
                  \/ /\ tbl_last.at - map[i].usage >= 10000
                     /\ map[i].usage < map[s].usage)
                 => tbl_last.ret = a

\* a shard was rebound while another shard, holding another address, was
\* stale, and the next get_addr returned the rebound address
C8_Witness ==
    /\ tbl_last.op = "get_addr"
    /\ tbl_last.after.some
    /\ tbl_last.token \in DOMAIN token_to_sess
    /\ tbl_last.ret = tbl_last.after.val.addr
    /\ \E i \in DOMAIN token_to_sess[tbl_last.token] :
          /\ i # tbl_last.after.val.shard_id
          /\ token_to_sess[tbl_last.token][i].addr # tbl_last.ret
          /\ tbl_last.at - token_to_sess[tbl_last.token][i].usage >= 10000

(***************************************************************************)
(* Properties of the recent-filter.                                        *)
(***************************************************************************)
\* C10: check(v) returns false when v was accepted less than 600 s earlier and
\* true once more than 600 s have passed since v was last accepted (or v was
\* never accepted); a rejected replay does not move the time of acceptance.
C10_ReplayWindow600 ==
    last_check.val # "none" =>
        /\ ~last_check.prev.some => last_check.ret
        /\ last_check.prev.some =>
              /\ last_check.at - last_check.prev.val < 600 => ~last_check.ret
              /\ last_check.at - last_check.prev.val > 600 => last_check.ret

\* v was accepted, rejected when replayed 300 s later, and accepted again 900 s
\* after its acceptance, 600 s after the rejected replay
C10_Witness ==
    /\ last_check.val # "none"
    /\ last_check.prev.some
    /\ last_check.ret
    /\ last_check.at - last_check.prev.val = 900
    /\ last_check.prev_reject.some
    /\ last_check.prev_reject.val - last_check.prev.val = 300

(***************************************************************************)
(* Properties of the Inflight.                                             *)
(***************************************************************************)
KnownLost(inf) == { s \in DOMAIN inf.segments : inf.segments[s].known_lost }

\* C5: after any sequence of Inflight operations, lost_count is the number
\* of segments whose known_lost flag is set, and inflight() is unacked()
\* minus lost_count, which never underflows.
C5_LostCountIsKnownLost ==
    /\ inflight.lost_count = Cardinality(KnownLost(inflight))
    /\ Inflight_inflight(inflight) =
          Inflight_unacked(inflight) - Cardinality(KnownLost(inflight))
    /\ Inflight_inflight(inflight) >= 0

\* the unacknowledged segments that are not known lost
Pending(inf) == DOMAIN inf.segments \ KnownLost(inf)

\* C26: after any sequence of Inflight operations first_rto() returns the
\* seqno and time of the earliest scheduled retransmission among the
\* unacknowledged segments that are not known lost, and None when there is
\* none; it never returns a known-lost or acknowledged seqno.
C26_FirstRtoSkipsLost ==
    LET first_rto == Inflight_first_rto(inflight)
    IN IF Pending(inflight) = {} THEN first_rto = None
       ELSE /\ first_rto.some
            /\ first_rto.val.seqno \in Pending(inflight)
            /\ first_rto.val.time = inflight.segments[first_rto.val.seqno].retrans_time
            /\ \A s \in Pending(inflight) :
                  first_rto.val.time <= inflight.segments[s].retrans_time

\* the number of places of the RTO index that list seqno s
Listed(inf, s) ==
    Cardinality({ << t, i >> \in (DOMAIN inf.rtos) \X (1..MaxSeqno) :
                     i <= Len(inf.rtos[t]) /\ inf.rtos[t][i] = s })

\* C39: in every Inflight state each seqno listed in the RTO index under
\* time t is an unacknowledged segment whose retrans_time is t, every
\* unacknowledged segment not flagged known_lost is listed exactly once,
\* and no bucket of the index is empty.
C39_RtoIndexConsistent ==
    /\ \A t \in DOMAIN inflight.rtos :
          /\ inflight.rtos[t] # << >>
          /\ Len(inflight.rtos[t]) <= MaxSeqno
          /\ \A i \in 1..Len(inflight.rtos[t]) :
                /\ inflight.rtos[t][i] \in DOMAIN inflight.segments
                /\ inflight.segments[inflight.rtos[t][i]].retrans_time = t
    /\ \A s \in Pending(inflight) : Listed(inflight, s) = 1

\* Two segments shared a bucket; one was marked lost and left the index,
\* the other was sent again and moved to a later bucket.
C39_Witness ==
    /\ inf_last.op = "retransmit" /\ inf_last.seqno = 1 /\ inf_last.ret
    /\ DOMAIN inflight.segments = {0, 1}
    /\ inflight.segments[0].known_lost
    /\ Listed(inflight, 0) = 0
    /\ Listed(inflight, 1) = 1
    /\ Cardinality(DOMAIN inflight.rtos) = 1

(***************************************************************************)
(* Properties of a stream.                                                 *)
(***************************************************************************)
IsPrefix(p, q) == Len(p) <= Len(q) /\ SubSeq(q, 1, Len(p)) = p

\* The Data messages transmitted towards e with seqno s.
DataSent(e, s) == { m \in wire[e] : m.kind = "Data" /\ m.seqno = s }

PayloadSent(e, s) == (CHOOSE m \in DataSent(e, s) : TRUE).payload

\* C1: in SteadyState, whatever is lost, duplicated, reordered or
\* retransmitted, the bytes handed to the reader are a prefix of the bytes
\* the peer's writer accepted; they are the payloads of the seqnos below
\* lowest_unseen, each once and in seqno order.
C1_ReaderGetsPrefix ==
    \A e \in Ends :
        /\ IsPrefix(send_read[e], accepted[Peer(e)])
        /\ \A s \in 0..(conn_vars[e].lowest_unseen - 1) : Cardinality(DataSent(e, s)) = 1
        /\ send_read[e] =
              Concat([k \in 1..conn_vars[e].lowest_unseen |-> PayloadSent(e, k - 1)])

\* Seqno 1 arrived before seqno 0, which was lost and retransmitted; its
\* arrival hands both fragments to the reader.
C1_Witness ==
    /\ last_evt.evt = "Data" /\ last_evt.end = "b" /\ last_evt.seqno = 0
    /\ last_evt.wrote = 2
    /\ conn_vars["a"].next_free_seqno = 2
    /\ 0 \in DOMAIN conn_vars["a"].inflight.segments
    /\ conn_vars["a"].inflight.segments[0].retrans = 1
    /\ send_read["b"] = accepted["a"]
    /\ conn_state["b"] = "SteadyState"

(***************************************************************************)
(* Properties of the sender's window.                                      *)
(***************************************************************************)
\* the step is a NewWrite event of endpoint e
NewWriteStep(e) == conn_vars'[e].next_free_seqno = conn_vars[e].next_free_seqno + 1

\* the step is a Retransmit event of endpoint e that sent a segment again
RetransmitStep(e) ==
    \E s \in DOMAIN conn_vars[e].inflight.segments \cap DOMAIN conn_vars'[e].inflight.segments :
        conn_vars'[e].inflight.segments[s].retrans = conn_vars[e].inflight.segments[s].retrans + 1

\* C21: a Retransmit or NewWrite event happens only where inflight() <= cwnd,
\* and a NewWrite only where unacked() <= cwnd as well, whether or not
\* retransmissions are permitted.
C21_CwndGatesWrites ==
    [][\A e \in Ends :
          /\ RetransmitStep(e) =>
                /\ last_evt'.evt = "Retransmit"
                /\ Inflight_inflight(conn_vars[e].inflight) >= 0
                /\ Inflight_inflight(conn_vars[e].inflight) <= last_evt'.cwnd
          /\ NewWriteStep(e) =>
                /\ last_evt'.evt = "NewWrite"
                /\ Inflight_inflight(conn_vars[e].inflight) >= 0
                /\ Inflight_inflight(conn_vars[e].inflight) <= last_evt'.cwnd
                /\ Inflight_unacked(conn_vars[e].inflight) <= last_evt'.cwnd]_vars

\* A lost segment was sent again with cwnd = 4 while five segments were
\* unacknowledged and a fragment was waiting to be written.
C21_Witness ==
    /\ last_evt.evt = "Retransmit" /\ last_evt.cwnd = CwndMin
    /\ Inflight_unacked(conn_vars["a"].inflight) > CwndMin
    /\ conn_vars["a"].write_fragments # << >>
    /\ conn_state["a"] = "SteadyState"

(***************************************************************************)
(* Properties of the delayed acknowledgement.                              *)
(***************************************************************************)
\* the step is an event handled by endpoint e's actor (reading the writer's
\* pipe ahead of the race is not one)
EventOf(e) ==
    /\ last_evt'.evt # "none" /\ last_evt'.end = e
    /\ recv_write' = recv_write
    /\ conn_vars'[e] # conn_vars[e] \/ last_evt' # last_evt

\* C22: the pending-ACK set never holds more than 32 seqnos; when it holds
\* 32, no Data frame is processed before an AckTimer event, though Rto and
\* Retransmit events may come first.
C22_AckBatchBound ==
    /\ [](\A e \in Ends : /\ Cardinality(conn_vars[e].ack_seqnos) <= 32
                          /\ conn_state[e] # "Panicked")
    /\ [][\A e \in Ends :
            (Cardinality(conn_vars[e].ack_seqnos) = 32 /\ EventOf(e)) =>
                /\ last_evt'.evt \in {"Rto", "Retransmit", "AckTimer"}
                /\ last_evt'.evt = "AckTimer" => conn_vars'[e].ack_seqnos = {}
                /\ last_evt'.evt # "AckTimer" =>
                      conn_vars'[e].ack_seqnos = conn_vars[e].ack_seqnos]_vars

\* With 32 seqnos pending and more Data on the wire, the RTO of the
\* receiver's own segment was handled first.
C22_Witness ==
    /\ Cardinality(conn_vars["b"].ack_seqnos) = 32
    /\ last_evt.evt = "Rto" /\ last_evt.end = "b"
    /\ Inflight_lost_count(conn_vars["b"].inflight) = 1
    /\ \E m \in wire["b"] : m.kind = "Data" /\ m.seqno \notin conn_vars["b"].ack_seqnos

\* the step is a Data event of endpoint e
DataStep(e) == EventOf(e) /\ last_evt'.evt = "Data"

\* the step is an AckTimer event of endpoint e
AckTimerStep(e) == EventOf(e) /\ last_evt'.evt = "AckTimer"

Sack(m) == safe_deserialize(m.payload)

\* the DataAck messages transmitted towards endpoint e
DataAcks(e) == { m \in wire[e] : m.kind = "DataAck" }

\* C24 (as stated): every DataAck carries seqno = lowest_unseen and a payload
\* listing, in ascending order, only seqnos above that cumulative point.
C24_SackAboveCumulative ==
    \A e \in Ends : \A m \in DataAcks(e) :
        \A i \in 1..Len(Sack(m)) :
            /\ Sack(m)[i] > m.seqno
            /\ i > 1 => Sack(m)[i - 1] < Sack(m)[i]

\* C24 (amended): every DataAck carries seqno = lowest_unseen and a payload
\* listing, in ascending order, the seqnos of the Data frames processed
\* since the previous DataAck; these lie below or above the cumulative
\* point, never on it.
C24_SackSincePreviousAck ==
    /\ [](\A e \in Ends :
            /\ conn_vars[e].lowest_unseen \notin conn_vars[e].ack_seqnos
            /\ \A m \in DataAcks(e) : \A i \in 1..Len(Sack(m)) :
                  /\ Sack(m)[i] # m.seqno
                  /\ i > 1 => Sack(m)[i - 1] < Sack(m)[i])
    /\ [][\A e \in Ends :
            /\ AckTimerStep(e) =>
                  wire'[Peer(e)] = wire[Peer(e)] \cup
                      { Rel("DataAck", conn_vars[e].lowest_unseen,
                            bincode_serialize(SortedSeq(conn_vars[e].ack_seqnos))) }
            /\ ~AckTimerStep(e) => DataAcks(Peer(e))' = DataAcks(Peer(e))
            /\ DataStep(e) =>
                  conn_vars'[e].ack_seqnos = conn_vars[e].ack_seqnos \cup {last_evt'.seqno}]_vars

\* A DataAck that lists seqnos below its cumulative point and one above it.
C24_Witness ==
    \E m \in DataAcks("a") :
        /\ m.seqno = conn_vars["b"].lowest_unseen
        /\ \E i, j \in 1..Len(Sack(m)) : Sack(m)[i] < m.seqno /\ Sack(m)[j] > m.seqno

(***************************************************************************)
(* Properties of the loss bookkeeping of a stream.                         *)
(***************************************************************************)
\* C25: at every event boundary lost_seqnos is exactly the set of inflight
\* segments flagged known_lost, so the assertions on lost_count never fire;
\* Inflight::retransmit is called only for a seqno that is marked lost and
\* is still unacknowledged.
C25_LostSetIsKnownLost ==
    /\ [](\A e \in Ends :
            /\ conn_state[e] # "Panicked"
            /\ conn_vars[e].lost_seqnos = KnownLost(conn_vars[e].inflight)
            /\ LostCountAgrees(conn_vars[e]))
    /\ [][\A e \in Ends :
            /\ (EventOf(e) /\ last_evt'.evt = "Retransmit") =>
                  /\ last_evt'.seqno \in conn_vars[e].lost_seqnos
                  /\ last_evt'.seqno \in KnownLost(conn_vars[e].inflight)
                  /\ last_evt'.seqno \notin KnownLost(conn_vars'[e].inflight)
                  /\ RetransmitStep(e)
            /\ RetransmitStep(e) => (EventOf(e) /\ last_evt'.evt = "Retransmit")
            /\ (EventOf(e) /\ last_evt'.evt = "Rto") =>
                  /\ last_evt'.seqno \in DOMAIN conn_vars[e].inflight.segments
                  /\ last_evt'.seqno \notin KnownLost(conn_vars[e].inflight)
                  /\ last_evt'.seqno \in conn_vars'[e].lost_seqnos]_vars

\* Two segments were marked lost and the lower one has just been sent
\* again, which leaves the other one in lost_seqnos.
C25_Witness ==
    /\ last_evt.evt = "Retransmit" /\ last_evt.end = "a"
    /\ conn_vars["a"].lost_seqnos # {}
    /\ last_evt.seqno < SetMin(conn_vars["a"].lost_seqnos)
    /\ conn_vars["a"].inflight.segments[last_evt.seqno].retrans = 1
    /\ Inflight_lost_count(conn_vars["a"].inflight) = Cardinality(conn_vars["a"].lost_seqnos)

(***************************************************************************)
(* Properties of a closing stream.                                         *)
(***************************************************************************)
\* the bytes of the Data messages endpoint e has sent so far, in seqno order
AssignedBytes(e) ==
    Concat([k \in 1..conn_vars[e].next_free_seqno |-> PayloadSent(Peer(e), k - 1)])

LeavesSteady(e) ==
    conn_state[e] = "SteadyState" /\ conn_state'[e] = "Reset" /\ last_evt'.end = e

\* C20: when the closing flag is set every byte the writer accepted has been
\* given a seqno and has entered inflight; no Data seqno is assigned after
\* that; the actor leaves SteadyState because of closing only with
\* unacked() == 0, at the Closing event or at the DataAck that acknowledges
\* the last outstanding segment.
C20_ClosingDrains ==
    /\ [](\A e \in Ends : conn_vars[e].closing =>
              /\ writer_closed[e]
              /\ recv_write[e] = << >> /\ conn_vars[e].write_fragments = << >>
              /\ AssignedBytes(e) = accepted[e])
    /\ [](\A e \in Ends : conn_state[e] = "SteadyState" => ~check_closed(conn_vars[e]))
    /\ [][\A e \in Ends :
            /\ conn_vars'[e].next_free_seqno # conn_vars[e].next_free_seqno =>
                  /\ ~conn_vars[e].closing
                  /\ conn_vars'[e].next_free_seqno = conn_vars[e].next_free_seqno + 1
                  /\ conn_vars[e].next_free_seqno \in DOMAIN conn_vars'[e].inflight.segments
                  /\ conn_vars'[e].inflight.segments[conn_vars[e].next_free_seqno].payload
                        \in { m \in wire'[Peer(e)] :
                                 m.kind = "Data" /\ m.seqno = conn_vars[e].next_free_seqno }
            /\ conn_vars[e].closing => conn_vars'[e].closing
            /\ (LeavesSteady(e) /\ last_evt'.evt = "Closing") =>
                  /\ ~conn_vars[e].closing /\ conn_vars'[e].closing
                  /\ Inflight_unacked(conn_vars[e].inflight) = 0
                  /\ conn_vars'[e].inflight = conn_vars[e].inflight
            /\ (LeavesSteady(e) /\ last_evt'.evt = "DataAck") =>
                  /\ conn_vars[e].closing
                  /\ Inflight_unacked(conn_vars[e].inflight) > 0
                  /\ Inflight_unacked(conn_vars'[e].inflight) = 0
            /\ (LeavesSteady(e) /\ check_closed(conn_vars'[e])) =>
                  last_evt'.evt \in {"Closing", "DataAck"}]_vars

\* The writer wrote, closed, and the Closing event found a segment
\* unacknowledged; the actor stayed and left at the DataAck for it.
C20_Witness ==
    /\ conn_state["a"] = "Reset" /\ conn_state["b"] = "SteadyState"
    /\ last_evt.evt = "DataAck" /\ last_evt.end = "a"
    /\ conn_vars["a"].closing
    /\ accepted["a"] # << >>
    /\ conn_vars["a"].next_free_seqno = 2
    /\ Inflight_unacked(conn_vars["a"].inflight) = 0

(***************************************************************************)
(* Properties of the client's uploader.                                    *)
(***************************************************************************)
\* A step that handles a reset_interval expiry.
ExpiryHandled == reset_elapsed > ResetTicks /\ reset_elapsed' = 0

Replaced(i) == workers'[i].id # workers[i].id

\* C11: at an expiry that does not directly follow a replacement, if the
\* p-value of the receive counts is below 0.01, exactly one worker, one
\* with the minimum receive count, is replaced by a fresh worker with the
\* same shard_id; at the expiry after a replacement no worker is replaced
\* and every counter is reset to 0.
C11_FireWorstThenRebaseline ==
    [][ExpiryHandled =>
          /\ (/\ ~just_respawned
              /\ uniform_pvalue(received_counts(workers)).hi < PScale \div 100) =>
                /\ Cardinality({ i \in Shards : Replaced(i) }) = 1
                /\ \A i \in Shards : Replaced(i) =>
                      /\ workers'[i].shard_id = workers[i].shard_id
                      /\ workers'[i].received_count = 0
                      /\ workers'[i].id \notin { workers[j].id : j \in Shards }
                      /\ fired_workers' # << >>
                      /\ fired_workers'[Len(fired_workers')] = workers[i].id
                      /\ \A j \in Shards \ {i} :
                            workers[i].received_count <= workers'[j].received_count
                /\ just_respawned'
          /\ just_respawned =>
                /\ \A i \in Shards : ~Replaced(i) /\ workers'[i].received_count = 0
                /\ ~just_respawned'
          /\ (~just_respawned /\ ~just_respawned') => UNCHANGED workers]_vars

\* The counts were 0, 30, 28, 32: worker 0 has been fired and replaced.
C11_Witness ==
    /\ just_respawned
    /\ fired_workers = << 0 >>
    /\ workers[0] = [shard_id |-> 0, received_count |-> 0, id |-> Cardinality(Shards)]
    /\ workers[1].received_count = 30
    /\ workers[2].received_count = 28
    /\ workers[3].received_count = 32

\* the process call of this step was given a frame that is dropped
Dropped ==
    /\ last_in' # last_in \/ last_res' # last_res \/ high_before' # high_before
    /\ \/ last_in'.kind \in {"Forged", "Unparsable"}
       \/ /\ last_in'.kind = "Data"
          /\ ~ReplayFilter_add(replay_filter, last_in'.frame_no).ret

\* C14: a process call on a frame that fails decryption, does not parse, or
\* is a Data frame the replay filter rejects returns no pair and leaves the
\* replay filter, the decoder's caches and the loss statistics unchanged.
C14_DroppedFrameNoEffect ==
    [][Dropped => /\ ~last_res'.some
                  /\ UNCHANGED << replay_filter, data_frames, parity_space, rloss, emit >>]_vars

\* After frames were accepted, the last call was given a Data frame that the
\* replay filter rejected although the loss statistics never saw it (it had
\* been recovered from parity).
C14_Witness ==
    /\ last_in.kind = "Data"
    /\ ~last_res.some
    /\ last_in.frame_no \in DOMAIN emit
    /\ emit[last_in.frame_no].via = "fec"
    /\ last_in.frame_no \notin rloss.good_seqnos
    /\ rloss.good_seqnos # {}


\* C16: the filter remembers at most 10,001 seqnos, all of them between
\* bottom_seqno and top_seqno, with bottom_seqno = max(0, top_seqno - 10000);
\* add accepts and remembers every seqno of that window it does not hold.
C16_WindowInvariant ==
    /\ Cardinality(replay_filter.seen_seqno) <= ReplayWindow + 1
    /\ \A s \in replay_filter.seen_seqno :
          replay_filter.bottom_seqno <= s /\ s <= replay_filter.top_seqno
    /\ replay_filter.bottom_seqno = Max(0, replay_filter.top_seqno - ReplayWindow)
    /\ \A s \in (replay_filter.bottom_seqno..replay_filter.top_seqno)
                    \ replay_filter.seen_seqno :
          /\ ReplayFilter_add(replay_filter, s).ret
          /\ s \in ReplayFilter_add(replay_filter, s).rf.seen_seqno

\* C16 as stated: the filter never remembers more than 10,000 seqnos.
C16_AtMostWindowEntries == Cardinality(replay_filter.seen_seqno) <= ReplayWindow

\* The window has slid and is full: 10,001 seqnos are remembered.
C16_Witness ==
    /\ replay_filter.bottom_seqno > 0
    /\ Cardinality(replay_filter.seen_seqno) = ReplayWindow + 1

(***************************************************************************)
(* Properties of the multiplex actor                                       *)
(***************************************************************************)

\* C12: an open_conn whose task finds the stream table full (65,535 ids in
\* use) fails with an error; the call does not stay blocked for ever.
C12_FullTableOpenFails == \A c \in open_no_id : open_calls[c] = "Err"

\* C13: every Urel body the actor received from the session is waiting in
\* the urel_recv queue or has been returned by try_recv_urel / recv_urel.
C13_UrelReachesReceiver ==
    \A b \in urel_arrived :
       \/ b \in urel_got
       \/ \E i \in 1..Len(urel_recv) : urel_recv[i] = b

SessionReplaceHandled == Len(recv_session') < Len(recv_session)

\* C15: the step that handles a SessionReplace event leaves the stream table,
\* the streams' queues and the streams' state as they are, and whatever is
\* sent afterwards is sent on the session swapped in last.
C15_ReplaceKeepsStreams ==
    [][/\ SessionReplaceHandled =>
             /\ UNCHANGED << sid_to_stream, other_streams, open_calls, open_tasks, glob,
                             conn_accept, streamVars >>
             /\ session' = Head(recv_session)
       /\ last_sent' # last_sent => last_sent'.val.sess = swapped'.sess]_vars

\* A stream was open when session 1 was swapped in; it is still open and a
\* message has been sent on session 1.
C15_Witness ==
    /\ swapped.sess = 1
    /\ swapped.streams # {}
    /\ \A s \in swapped.streams : sid_to_stream[s].some
    /\ last_sent.some
    /\ last_sent.val.sess = 1

\* the step sent these bytes, once, on the current session
SentOnce(bytes) ==
    /\ Sends' = Sends + 1
    /\ last_sent'.val.bytes = bytes
    /\ last_sent'.val.sess = session

\* what a RecvMsg event may leave alone
RecvMsgKeeps == UNCHANGED << session, sid_to_stream, other_streams, conn_accept, glob,
                             dead_recv, open_tasks, open_calls >>

\* C27: a Rel frame other than Syn for a stream id that is not in the table
\* is answered with exactly one Rst for that id when its kind is not Rst,
\* and with nothing when it is a Rst; no stream is created.
C27_CourtesyRst ==
    [][\A bytes \in InBytes :
          LET msg == Message_deserialize(bytes)
          IN (/\ EvtRecvMsg(bytes)
              /\ msg.some /\ msg.val.variant = "Rel" /\ msg.val.kind # "Syn"
              /\ ~sid_to_stream[msg.val.stream_id].some) =>
                 /\ RecvMsgKeeps
                 /\ IF msg.val.kind # "Rst"
                    THEN SentOnce(Message_serialize(
                             Message_Rel("Rst", msg.val.stream_id, 0, << >>)))
                    ELSE last_sent' = last_sent]_vars

\* The first input was a Data frame for stream 1 of an empty table: one
\* message has been sent, the Rst for stream 1.
C27_Witness ==
    /\ mux_inputs = 1
    /\ \A s \in Sids : ~sid_to_stream[s].some
    /\ last_sent.some /\ last_sent.val.no = 1
    /\ last_sent.val.bytes = Message_serialize(Message_Rel("Rst", 1, 0, << >>))
    /\ conn_accept = << >>

\* C28: bytes that do not deserialize are answered with exactly one Empty
\* on the current session, leave the stream table alone and do not stop
\* the actor; a received Empty is not answered.
C28_EmptyReply ==
    /\ [][/\ EvtRecvMsg(<< "noise" >>) =>
                /\ RecvMsgKeeps
                /\ SentOnce(Message_serialize(Message_Empty))
                /\ mux_inputs' < MaxMuxInputs =>
                      (ENABLED EvtRecvMsg(Message_serialize(Message_Empty)))'
          /\ EvtRecvMsg(Message_serialize(Message_Empty)) =>
                /\ RecvMsgKeeps
                /\ last_sent' = last_sent]_vars

\* Noise came first and was answered; the Empty that came next was not.
C28_Witness ==
    /\ mux_inputs = 2
    /\ last_sent.some /\ last_sent.val.no = 1
    /\ last_sent.val.bytes = Message_serialize(Message_Empty)
    /\ \A s \in Sids : ~sid_to_stream[s].some
    /\ urel_arrived = {} /\ urel_send = << >> /\ recv_session = << >> /\ conn_open = << >>
    /\ \A c \in Callers : open_calls[c] = "Idle"

\* C37: a Syn for a stream id that is in the table creates no stream and
\* accepts no connection: it is answered with one SynAck for that id and the
\* table entry stays as it is.  A stream enters the accept queue only in
\* the step that creates it from a Syn for an unused id, hence at most once.
C37_SynForKnownId ==
    [][/\ \A id \in Sids :
             (/\ EvtRecvMsg(Message_serialize(Message_Rel("Syn", id, 0, << >>)))
              /\ sid_to_stream[id].some) =>
                 /\ RecvMsgKeeps
                 /\ SentOnce(Message_serialize(Message_Rel("SynAck", id, 0, << >>)))
       /\ conn_accept' # conn_accept =>
             \E id \in Sids :
                /\ conn_accept' = Append(conn_accept, id)
                /\ ~sid_to_stream[id].some
                /\ sid_to_stream'[id] = Some(RelConnBack_new("SynReceived", 0))]_vars

\* Two Syn frames for stream 1 have arrived: one stream, accepted once,
\* still in SynReceived with nothing queued for it, and one SynAck sent.
C37_Witness ==
    /\ mux_inputs = 2
    /\ conn_accept = << 1 >>
    /\ sid_to_stream[1] = Some(RelConnBack_new("SynReceived", 0))
    /\ ~sid_to_stream[0].some
    /\ last_sent.some /\ last_sent.val.no = 1
    /\ last_sent.val.bytes = Message_serialize(Message_Rel("SynAck", 1, 0, << >>))

\* the table entry of id s belongs to a running actor
Live(s) == sid_to_stream[s].some /\ ~sid_to_stream[s].val.died.some

\* C29: the id a locally opened stream is registered under is unused at
\* that moment: set_stream never replaces the entry of a live stream,
\* however the open tasks and inbound Syn frames interleave.
C29_SetStreamFreshId ==
    [][\A t \in open_tasks :
          (t.found.some /\ ConnOpenSet(t)) => ~Live(t.found.val)]_vars

\* C30: the table entry of a stream is removed only when its actor has
\* been dead for 30 s, and until then the id is not given to a new stream.
C30_ReapedAfter30s ==
    [][\A s \in Sids :
          /\ (sid_to_stream[s].some /\ ~sid_to_stream'[s].some) =>
                /\ sid_to_stream[s].val.died.some
                /\ mux_now >= sid_to_stream[s].val.died.val + ReapSecs
          /\ (sid_to_stream[s].some /\ sid_to_stream[s].val.died.some
                /\ sid_to_stream'[s].some) =>
                /\ sid_to_stream'[s].val.died = sid_to_stream[s].val.died
                /\ sid_to_stream'[s].val.opener = sid_to_stream[s].val.opener]_vars

Received == rc_wire # << >> /\ rc_wire' = Tail(rc_wire)
OpenSucceeds == rc_state.name = "SynSent" /\ rc_state'.name = "SteadyState"

\* C17: a locally opened stream leaves SynSent for SteadyState, and
\* open_conn yields the stream, only upon a SynAck; a Rst or another Rel
\* kind received in SynSent does not make the open succeed.
C17_OpenOnlyOnSynAck ==
    [][/\ OpenSucceeds => Received /\ Head(rc_wire).kind = "SynAck"
       /\ (rc_open' = "Ok" /\ rc_open # "Ok") => rc_last_recv.val.kind = "SynAck"]_vars

\* C18: in SynSent the actor waits 500 ms * 2^tries for a Rel frame and
\* ignores other messages; each timeout sends Syn with the additional_info
\* payload and increments tries; the sixth timeout ends the actor, which
\* then never enters SteadyState.
C18_SynSentBackoff ==
    /\ [](rc_state.tries = 6 => rc_state.name = "Exited" /\ ~rc_result /\ rc_open # "Ok")
    /\ [][/\ rc_state'.tries # rc_state.tries =>
                /\ rc_state.name = "SynSent"
                /\ rc_state'.tries = rc_state.tries + 1
                /\ rc_now - rc_wait_start >= 500 * 2 ^ rc_state.tries
                /\ rc_sent' = Append(rc_sent,
                        Message_Rel("Syn", 0, 0,
                                    IF rc_additional.some THEN rc_additional.val ELSE << >>))
                /\ rc_state'.name = IF rc_state.tries = 5 THEN "Exited" ELSE "SynSent"
          /\ (rc_state.name = "SynSent" /\ Received /\ Head(rc_wire).variant # "Rel") =>
                UNCHANGED << rc_state, rc_wait_start, rc_sent, rc_result >>
          /\ (rc_state.name = "SynSent" /\ Received /\ Head(rc_wire).variant = "Rel") =>
                rc_state'.name = "SteadyState"
          /\ (rc_state.name = "SynSent" /\ rc_state'.name = "Exited") => rc_state.tries = 5
          /\ rc_state.name = "Exited" => rc_state'.name = "Exited"]_vars

C18_Witness ==
    /\ rc_state.name = "Exited" /\ rc_state.tries = 6
    /\ Len(rc_sent) = 6
    /\ \A i \in 1..6 : rc_sent[i] = Message_Rel("Syn", 0, 0, << 7 >>)
    /\ rc_last_recv = Some(Message_Empty)
    /\ rc_open = "Pending"

Message_Rst == Message_Rel("Rst", 0, 0, << >>)

\* C19: a stream in Reset stays in Reset until the actor ends; it closes the
\* reader and sends Rst on entry and after each Rel frame other than Rst
\* that it receives; it ends only on a peer Rst or at the deadline 60 s after
\* it first entered Reset, and no traffic moves that deadline.
C19_ResetLingers ==
    /\ [](rc_reset_at >= 0 => /\ rc_state.name \in {"Reset", "Exited"}
                              /\ rc_reader_closed
                              /\ rc_state.death = rc_reset_at + 60000)
    /\ [](rc_state.name = "Reset" => rc_reset_at >= 0)
    /\ [](~rc_listening => rc_last_recv = Some(Message_Empty))
    /\ [](rc_state.name = "Reset" /\ rc_now >= rc_reset_at + 60000 => ENABLED ResetDeath)
    /\ [][/\ rc_state.name = "Reset" => rc_state'.name \in {"Reset", "Exited"}
          /\ (rc_state.name = "SteadyState" /\ Received /\ Head(rc_wire) = Message_Rst) =>
                rc_state'.name = "Reset"
          /\ (rc_state.name # "Reset" /\ rc_state'.name = "Reset") =>
                /\ rc_state.name = "SteadyState"
                /\ rc_sent' = Append(rc_sent, Message_Rst)
                /\ rc_reset_at' = rc_now
          /\ (rc_state.name = "Reset" /\ Received /\ Head(rc_wire).variant = "Rel") =>
                IF Head(rc_wire).kind = "Rst"
                THEN rc_state'.name = "Exited" /\ rc_sent' = rc_sent
                ELSE rc_state'.name = "Reset" /\ rc_sent' = Append(rc_sent, Message_Rst)
          /\ (rc_state.name = "Reset" /\ rc_state'.name = "Exited") =>
                \/ rc_now >= rc_reset_at + 60000
                \/ Received /\ Head(rc_wire) = Message_Rst
          /\ rc_reset_at >= 0 => rc_reset_at' = rc_reset_at]_vars

C19_Witness ==
    /\ rc_state.name = "Exited" /\ rc_reset_at > 0
    /\ rc_now = rc_reset_at + 60000
    /\ rc_last_recv = Some(Message_Rel("Data", 0, 0, << >>))
    /\ Len(rc_sent) >= 2
    /\ rc_sent[Len(rc_sent)] = Message_Rst /\ rc_sent[Len(rc_sent) - 1] = Message_Rst

\* the Rst frames the actor has transmitted
RstSent == Len(SelectSeq(rc_sent, LAMBDA m : m = Message_Rst))

\* C36: a stream never answers a Rst with a Rst more than once: a Rst taken
\* in Reset ends the actor without a transmission, a Rst taken in
\* SteadyState is followed by the one Rst sent on entering Reset, and every
\* other Rst the actor sends answers a Rel frame that is not a Rst; an actor
\* that has ended sends nothing.
C36_RstNotBounced ==
    [][/\ (rc_state.name = "Reset" /\ Received /\ Head(rc_wire) = Message_Rst) =>
             rc_sent' = rc_sent /\ rc_state'.name = "Exited"
       /\ (rc_state.name = "SteadyState" /\ Received /\ Head(rc_wire) = Message_Rst) =>
             RstSent' = RstSent + 1 /\ rc_state'.name = "Reset"
       /\ RstSent' # RstSent =>
             /\ RstSent' = RstSent + 1
             /\ \/ rc_state.name = "SteadyState" /\ rc_state'.name = "Reset"
                \/ /\ rc_state.name = "Reset" /\ Received
                   /\ Head(rc_wire).variant = "Rel" /\ Head(rc_wire).kind # "Rst"
       /\ rc_state.name = "Exited" => rc_sent' = rc_sent /\ rc_state'.name = "Exited"]_vars

\* An accepted stream took a Rst in SteadyState and sent its one Rst, then
\* took the peer's Rst in Reset and ended without sending another.
C36_Witness ==
    /\ rc_state.name = "Exited"
    /\ rc_inputs = 2 /\ rc_wire = << >>
    /\ rc_last_recv = Some(Message_Rst)
    /\ rc_sent = << Message_Rel("SynAck", 0, 0, << >>), Message_Rst >>
    /\ rc_now = rc_reset_at

\* C35: when no Rel frame ever answers the Syn, the open ends with an
\* error once the SynSent retries are used up: after the actor has given up
\* and the task holding result_chan has run, open_conn has returned Err.
C35_OpenFailsAfterRetries ==
    (rc_state.name = "Exited" /\ rc_state.tries > MaxSynTries /\ rc_open # "Waiting") =>
        rc_open = "Err"

(***************************************************************************)
(* Properties of the opening handshake between two multiplexes.            *)
(***************************************************************************)
\* C34: every stream open_conn has returned is connected to a stream of the
\* same id that the peer created for an inbound Syn and handed to
\* accept_conn; two streams opened with the same id on both sides at once
\* are not connected to each other by the SynAck sent for a known id.
C34_OpenedMeetsAccepted ==
    \A p \in Peers : \A stream_id \in pr_returned[p] :
        /\ pr_tab[OtherPeer(p)][stream_id].some
        /\ pr_tab[OtherPeer(p)][stream_id].val.origin = "accept"

(***************************************************************************)
(* Properties of the buffer pool.                                          *)
(***************************************************************************)
\* C33: the free-list of a thread never holds more than 1,000 vectors, and
\* a dropped buffer whose capacity exceeds 4096 bytes is freed: a drop puts
\* its vector into the free-list only if the capacity is at most 4096 and
\* the free-list then holds at most 1,000 vectors.
C33_PoolSmallBuffersOnly ==
    [][\A i \in DOMAIN buf_live :
          (BuffMut_drop(i) /\ BUFF_POOL' # BUFF_POOL) =>
              /\ Len(BUFF_POOL') <= 1000
              /\ buf_live[i] <= 4096]_vars

(***************************************************************************)
(* Properties of the dejitter buffer.                                      *)
(***************************************************************************)
Returned(k) == \E i \in DOMAIN dj_returned : dj_returned[i].pkt = k
InChannel(k) == \E i \in DOMAIN dj_injector : dj_injector[i].pkt = k
Buffered(k) ==
    \E e \in dj_order :
        /\ e[2] \in DOMAIN dj_packets.entries
        /\ dj_packets.entries[e[2]] = Some(k)
        /\ e[1] = dj_injected[k]

\* the arrival queue, the heap and the slab hold the same number of entries
SameLength ==
    /\ Len(dj_arrivals) = Cardinality(dj_order)
    /\ Slab_len(dj_packets) = Cardinality(dj_order)

IsResume(p) == p.bytes = ResumePacket
Last(q) == q[Len(q)]

\* the time of the last packet the worker gave to its socket
LastTransmission == IF wk_socket = << >> THEN None ELSE Some(Last(wk_socket).at)

\* the uploads the worker has forwarded so far
Forwarded == SelectSeq(wk_socket, LAMBDA p : ~IsResume(p))

\* C31: before it forwards an upload the worker sends
\* ClientResume{resume_token, shard_id} to the server whenever it has sent
\* none on this socket yet, or its last received packet is more than 1 s
\* old, or its previous transmission is more than 1 s old; the upload then
\* goes unchanged to server_addr, and the uploads go out in the order in
\* which they were given.
C31_ResumeBeforeUpload ==
    /\ [](/\ Len(Forwarded) <= Len(wk_uploads)
          /\ \A i \in DOMAIN Forwarded :
                Forwarded[i].bytes = wk_uploads[i] /\ Forwarded[i].dest = "server_addr"
          /\ \A i \in DOMAIN wk_socket : wk_socket[i].dest = "server_addr")
    /\ [][wk_socket' # wk_socket =>
             /\ wk_recv_upload # << >>
             /\ Last(wk_socket').bytes = Head(wk_recv_upload)
             /\ (\/ \A i \in DOMAIN wk_socket : ~IsResume(wk_socket[i])
                 \/ GapOver(wk_last_incoming_time, wk_now)
                 \/ GapOver(LastTransmission, wk_now)) =>
                    /\ Len(wk_socket') = Len(wk_socket) + 2
                    /\ wk_socket'[Len(wk_socket) + 1] =
                          [bytes |-> ResumePacket, dest |-> "server_addr", at |-> wk_now]]_vars

\* Two uploads went out, each behind a ClientResume: the first because none
\* had been sent, the second because the last packet received from the
\* server was more than 1 s old although the worker had just transmitted.
C31_Witness ==
    /\ Len(wk_socket) = 4
    /\ IsResume(wk_socket[1]) /\ ~IsResume(wk_socket[2])
    /\ IsResume(wk_socket[3]) /\ ~IsResume(wk_socket[4])
    /\ wk_socket[3].at - wk_socket[2].at <= ResumeGapMs
    /\ wk_last_incoming_time.some
    /\ wk_socket[3].at - wk_last_incoming_time.val > ResumeGapMs

(***************************************************************************)
(* Properties of the TCP connection pool.                                  *)
(***************************************************************************)
\* C32: the pool holds at most one connection for each destination,
\* however concurrent send_to calls interleave, and a connection taken
\* from the pool for a write is less than 600 s old.
C32_OnePooledConnection ==
    /\ \A dest \in Dests : Len(conn_pool[dest]) <= 1
    /\ \A c \in TcpCallers :
          (tcp_calls[c].at = "write" /\ tcp_calls[c].pooled) => tcp_calls[c].age < 600

====
